---- MODULE Spec2Model ----
(***************************************************************************)
(* Inline image generation extension (src/index.js and its second copy     *)
(* src/unnamed/part_000): reconciliation of the image tags of one chat     *)
(* message, and the retry loop of the generation orchestrator.             *)
(*                                                                         *)
(* Spec      - processMessageTags / regenerateMessageImages on one message *)
(* SpecRetry - generateImageWithRetry (SpecRetryFair: every request and    *)
(*             timer settles)                                              *)
(* SpecScan  - parseImageTags on a text of tokens, one loop iteration a    *)
(*             step                                                        *)
(* SpecText  - processMessageTags on the text of tokens of one message:    *)
(*             what each settled tag writes into message.mes               *)
(* SpecBackend - generateImageOpenAI / generateImageGemini: the request    *)
(*             sent and the reading of one answer                          *)
(* SpecSettings - the settings panel while one generation is in progress: *)
(*             the backend each attempt is routed to, the reference images *)
(*             and the retry count                                         *)
(*                                                                         *)
(* In Spec a message text is a sequence of tag slots; in SpecScan and      *)
(* SpecText it is a sequence of tokens with their character widths.  Every *)
(* `await` of the source is a suspension point: an action is the code      *)
(* between two suspension points.                                          *)
(***************************************************************************)
EXTENDS Integers, Sequences, FiniteSets, TLC

\* ------------------------------------------------------------------ bounds
MaxTags == 2      \* tag slots in the message text
MaxRuns == 2      \* handler invocations (automatic triggers and regenerates)
MaxGenCalls == 3  \* generation calls started over one behaviour
MaxRetriesCfg == 2  \* largest settings.maxRetries considered
MaxPieces == 2    \* pieces (markers and plain runs) of a scanned text

\* ------------------------------------------------------------- vocabulary
Builds == {"index", "part"}            \* src/index.js, src/unnamed/part_000
TheMessage == "mes5"                   \* the message identifier
NoInstr == "none"                      \* element without data-iig-instruction
NumericPrompt == "#123"                \* {"prompt":123}: prompt is not a string
Runs == 1..MaxRuns

\* src values of a markup slot / states of a legacy slot:
\*   gen   src="[IMG:GEN]"            [IMG:GEN:{json}]
\*   done  src="/user/images/x.png"   [IMG:✓:path]
\*   url   src="http..."              (remote URL result)
\*   error src=".../error.svg"        [IMG:ERROR:msg]
SlotStates == {"gen", "done", "url", "error"}
Slot == [fmt : {"markup", "legacy"}, p : {"fox", "cat", NumericPrompt}, st : SlotStates]

ProbeOutcomes == {"ok", "notfound", "throws"}
GenOutcomes == {"data", "url", "fail"}

VARIABLES
    build,               \* which copy of the extension is loaded
    enabled,             \* settings.enabled
    is_user,             \* message.is_user
    present,             \* context.chat[messageId] is a message
    mes,                 \* message.mes, as the sequence of its tag slots
    rendered,            \* "full": #chat .mes[mesid] with .mes_text; "noText"; "none"
    dom,                 \* children of .mes_text that the code looks at
    processingMessages,  \* the in-flight set
    run,                 \* one record per handler invocation
    \* generateImageWithRetry
    config,              \* settings.endpoint, settings.apiKey, settings.model
    avatars,             \* reference avatars to fetch (Gemini and send*Avatar set)
    maxRetries,          \* settings.maxRetries
    retryDelay,          \* settings.retryDelay (ms)
    script,              \* what the backend answers to the attempts still to come
    attempt,             \* the loop counter
    rpc,                 \* idle, call, sleep, returned, thrown
    lastError,
    fails,               \* the errors of the failed attempts, in order
    log,                 \* status callbacks, backend calls and sleeps, in order
    \* parseImageTags on a text
    pieces,              \* the text scanned, as the sequence of its pieces
    options,             \* checkExistence, forceAll
    phase,               \* markup (first loop), legacy (second loop), done
    searchPos,           \* searchPos / searchStart of the running loop
    found,               \* tags
    probes,              \* the existence probes made: <<element position, answer>>
    \* processMessageTags on the text of the message
    mesText,             \* message.mes, as the sequence of its tokens
    pending,             \* the tags of the running trigger not yet started
    cur,                 \* the tag being generated, if any
    triggers,            \* automatic triggers so far
    settled,             \* the tag settled last, with the text before and after
    failed,              \* the tags whose last generation failed
    \* generateImageOpenAI / generateImageGemini
    api,                 \* the backend the request goes to
    tagOptions,          \* options.aspectRatio, options.imageSize
    configured,          \* settings.aspectRatio, settings.imageSize
    response,            \* the body of the backend's answer (status ok)
    sent,                \* generationConfig.imageConfig of the request sent
    result,              \* what the call returns or throws
    bpc,                 \* start, sent, done
    \* the settings panel and the requests of one generation
    settings,            \* the settings object
    gen,                 \* the call of generateImageWithRetry in progress
    ui                   \* panel events so far, and the max-retries value entered

retryVars == <<config, avatars, maxRetries, retryDelay, script, attempt, rpc, lastError, fails, log>>
scanVars == <<pieces, options, phase, searchPos, found, probes>>
textVars == <<mesText, pending, cur, triggers, settled, failed>>
backVars == <<api, tagOptions, configured, response, sent, result, bpc>>
setVars == <<settings, gen, ui>>
vars == <<build, enabled, is_user, present, mes, rendered, dom, processingMessages, run, retryVars,
          scanVars, textVars, backVars, setVars>>

\* ------------------------------------------------------------ DOM helpers
Node(k, p, src, c, r, i, live) ==
    [k |-> k, p |-> p, src |-> src, c |-> c, run |-> r, idx |-> i, live |-> live]

\* what the host renders for a slot of the message text
RenderSlot(s) ==
    IF s.fmt = "markup"
    THEN Node("img", s.p, s.st, "host", 0, 0, TRUE)
    ELSE Node("text", s.p, s.st, "host", 0, 0, TRUE)

Render(text) == [j \in DOMAIN text |-> RenderSlot(text[j])]

createLoadingPlaceholder(r, i, instr) ==
    Node("loading", instr, "none", "iig-loading-placeholder", r, i, TRUE)

\* the error image keeps the instruction of a markup tag
createErrorPlaceholder(r, i, tag) ==
    Node("img", IF tag.fmt = "markup" THEN tag.p ELSE NoInstr, "error",
         "iig-error-image", r, i, TRUE)

FinalImage(r, i, instr, src) ==
    Node("img", instr, src, "iig-generated-image", r, i, TRUE)

Min(S) == CHOOSE x \in S : \A y \in S : x <= y

\* index of the first node satisfying the test, 0 when there is none
FirstNode(d, Test(_)) ==
    LET S == {j \in DOMAIN d : Test(d[j])} IN IF S = {} THEN 0 ELSE Min(S)

\* element.replaceWith(n) through a handle held by a closure: a detached
\* handle (no node of the tree is that object any more) does nothing
IsHandle(n, r, i) == n.k = "loading" /\ n.run = r /\ n.idx = i /\ n.live

replaceWith(d, r, i, n) ==
    LET j == FirstNode(d, LAMBDA x : IsHandle(x, r, i))
    IN IF j = 0 THEN d ELSE [d EXCEPT ![j] = n]

\* mesTextEl.innerHTML = ...: every child is re-created from the markup, so
\* the objects held by closures are no longer part of the tree
Reparse(d) == [j \in DOMAIN d |-> [d[j] EXCEPT !.live = FALSE]]

\* ----------------------------------------------------------- text helpers
FullMatch(tag) == [fmt |-> tag.fmt, p |-> tag.p, st |-> tag.st]

\* message.mes.replace(tag.fullMatch, updated): the first occurrence only
ReplaceFirst(text, fm, st) ==
    LET S == {j \in DOMAIN text : text[j] = fm}
    IN IF S = {} THEN text ELSE [text EXCEPT ![Min(S)].st = st]

\* ------------------------------------------------------------- the scanner
checkFileExists(outcome) == outcome = "ok"

\* positions of the text whose source is a resolved server-relative path
PathPositions(text) ==
    {j \in DOMAIN text : text[j].fmt = "markup" /\ text[j].st = "done"}

\* the generation-needed decision for the markup element at position j
NeedsGeneration(text, j, probe, checkExistence, forceAll) ==
    LET st == text[j].st IN
    IF st = "error" /\ ~forceAll THEN FALSE
    ELSE IF forceAll THEN TRUE
    ELSE IF st = "gen" THEN TRUE
    ELSE IF st = "done" /\ checkExistence THEN ~checkFileExists(probe[j])
    ELSE FALSE

MakeTag(text, j) ==
    [fmt |-> text[j].fmt, p |-> text[j].p, st |-> text[j].st, pos |-> j]

RECURSIVE Ascending(_)
Ascending(S) == IF S = {} THEN <<>> ELSE <<Min(S)>> \o Ascending(S \ {Min(S)})

TagsAt(text, S) == [k \in 1..Cardinality(S) |-> MakeTag(text, Ascending(S)[k])]

\* markup family first, legacy family second, each in text order
parseImageTags(text, probe, checkExistence, forceAll) ==
    TagsAt(text, {j \in DOMAIN text : text[j].fmt = "markup"
                    /\ NeedsGeneration(text, j, probe, checkExistence, forceAll)})
    \o TagsAt(text, {j \in DOMAIN text : text[j].fmt = "legacy" /\ text[j].st = "gen"})

\* ------------------------------------------------- processTag, first part
\* tag.prompt.substring(0, 30) throws when the prompt is not a string
ThrowsBeforeAwait(tag) == tag.fmt = "markup" /\ tag.p = NumericPrompt

PlaceAt(d, j, n) == IF j = 0 THEN Append(d, n) ELSE [d EXCEPT ![j] = n]

\* markup family: the element carrying the instruction, else the first
\* element whose source still holds the generation marker
MarkupTarget(d, tag) ==
    LET j == FirstNode(d, LAMBDA x : x.k = "img" /\ x.p = tag.p)
    IN IF j # 0 THEN j
       ELSE FirstNode(d, LAMBDA x : x.k = "img" /\ x.src = "gen")

\* legacy family: every occurrence of the marker text becomes a placeholder
\* span named after the tag index
SpanFor(r, i) == Node("span", NoInstr, "none", "iig-placeholder", r, i, FALSE)

MarkerText(x, tag) == x.k = "text" /\ x.p = tag.p /\ x.src = tag.st

LegacyRewrite(d, r, i, tag) ==
    [j \in DOMAIN d |->
        IF MarkerText(d[j], tag) THEN SpanFor(r, i) ELSE [d[j] EXCEPT !.live = FALSE]]

LegacyTarget(d, d2, i) ==
    IF build = "index" /\ d2 = Reparse(d) THEN 0
    ELSE FirstNode(d2, LAMBDA x : x.k = "span" /\ x.idx = i)

PlaceLoader(d, r, i, tag) ==
    IF tag.fmt = "markup"
    THEN PlaceAt(d, MarkupTarget(d, tag), createLoadingPlaceholder(r, i, NoInstr))
    ELSE LET d2 == LegacyRewrite(d, r, i, tag)
         IN PlaceAt(d2, LegacyTarget(d, d2, i), createLoadingPlaceholder(r, i, NoInstr))

\* tags.map(processTag): every tag's first part runs before any await returns
RECURSIVE StartTags(_, _, _, _)
StartTags(d, r, tags, i) ==
    IF i > Len(tags) THEN d
    ELSE StartTags(IF ThrowsBeforeAwait(tags[i]) THEN d
                   ELSE PlaceLoader(d, r, i, tags[i]), r, tags, i + 1)

\* ------------------------------------------------------------------ state
\* pc: idle, scan (awaiting parseImageTags), tags (tags in flight), done,
\*     aborted (Promise.all rejected; the other tags still run)
\* tpc[i]: wait, gen (awaiting generateImageWithRetry), saveData / saveUrl
\*     (awaiting saveImageToFile), ok, err, skip, crashed
\* over, gate, saves, early, del, scanned record history for the properties
IdleRun == [pc |-> "idle", kind |-> "auto", text |-> <<>>, tags |-> <<>>,
            tpc |-> <<>>, instr |-> NoInstr, over |-> {}, gate |-> FALSE,
            saves |-> 0, early |-> FALSE, del |-> FALSE, scanned |-> FALSE]

\* slots of a message as the model first sees it: markup elements that are
\* unresolved, resolved or failed, and unresolved legacy markers
InitSlots == {s \in Slot : IF s.fmt = "legacy" THEN s.st = "gen" /\ s.p # NumericPrompt
                           ELSE IF s.p = NumericPrompt THEN s.st = "gen"
                           ELSE s.st \in {"gen", "done", "error"}}

\* the two string prompts are interchangeable: "cat" is the second one used
Canonical(m) ==
    \A j \in DOMAIN m : m[j].p = "cat" => \E k \in 1..(j - 1) : m[k].p = "fox"

Messages == {m \in UNION {[1..n -> InitSlots] : n \in 1..MaxTags} : Canonical(m)}

NoError == [kind |-> "none", status |-> "-", has |-> {}]

\* a settings field is the empty string until the user fills it in
ConfigFields == <<"endpoint", "apiKey", "model">>
Configs == [{ConfigFields[n] : n \in DOMAIN ConfigFields} -> {"", "set"}]
FullConfig == [f \in {ConfigFields[n] : n \in DOMAIN ConfigFields} |-> "set"]

\* generateImageWithRetry is not running
RetryIdle ==
    /\ config = FullConfig /\ avatars = <<>>
    /\ maxRetries = 0 /\ retryDelay = 1000 /\ script = <<>>
    /\ attempt = 0 /\ rpc = "idle" /\ lastError = NoError /\ fails = <<>> /\ log = <<>>

\* parseImageTags is not running
ScanIdle ==
    /\ pieces = <<>> /\ options = [checkExistence |-> FALSE, forceAll |-> FALSE]
    /\ phase = "done" /\ searchPos = 1 /\ found = <<>> /\ probes = <<>>

\* no message text is being processed
TextIdle ==
    /\ mesText = <<>> /\ pending = <<>> /\ cur = <<>> /\ triggers = 0
    /\ settled = <<>> /\ failed = {}

\* no request to a backend is being made
BackIdle ==
    /\ api = "openai" /\ tagOptions = [aspectRatio |-> "", imageSize |-> ""]
    /\ configured = [aspectRatio |-> "", imageSize |-> ""]
    /\ response = [data |-> <<>>, url |-> FALSE] /\ sent = <<>>
    /\ result = [kind |-> "none", form |-> "", from |-> 0, text |-> "", quotes |-> ""]
    /\ bpc = "off"

\* the settings panel is not used and no generation is followed
SetIdle == settings = <<>> /\ gen = <<>> /\ ui = <<>>

Init ==
    /\ RetryIdle /\ ScanIdle /\ TextIdle /\ BackIdle /\ SetIdle
    /\ build \in Builds
    /\ enabled \in BOOLEAN
    /\ is_user \in BOOLEAN
    /\ present \in BOOLEAN
    /\ mes \in (IF present THEN Messages ELSE {<<>>})
    /\ ~present => ~is_user
    /\ rendered \in {"full", "noText"}
    /\ dom = IF rendered = "full" THEN Render(mes) ELSE <<>>
    /\ processingMessages = {}
    /\ run = [r \in Runs |-> IdleRun]

InFlight(r) == run[r].pc \in {"scan", "tags"}
Settled(t) == t \in {"ok", "err", "crashed", "skip"}
AllSettled(r) == \A i \in DOMAIN run[r].tpc : Settled(run[r].tpc[i])
Finished(r) == run[r].pc \in {"done", "aborted"} /\ AllSettled(r)
CanStart(r) == run[r].pc = "idle" /\ (IF r = 1 THEN TRUE ELSE run[r - 1].pc # "idle")

\* generation calls started so far, and the cap on them
Called(t) == t \in {"gen", "saveData", "saveUrl", "ok", "err"}
GenCalls ==
    Cardinality({x \in Runs \X (1..MaxTags) :
                   x[2] \in DOMAIN run[x[1]].tpc /\ Called(run[x[1]].tpc[x[2]])})
Reserved ==
    Cardinality({x \in Runs \X (1..MaxTags) :
                   x[2] \in DOMAIN run[x[1]].tpc /\ run[x[1]].tpc[x[2]] = "wait"})
WithinCap(tags) == GenCalls + Reserved + Len(tags) <= MaxGenCalls

\* --------------------------------------------- onMessageReceived and
\* processMessageTags up to `await parseImageTags`
\* variant: the author of the message is not tested
ReturnsEarlyAnyAuthor ==
    ~enabled \/ rendered = "none" \/ TheMessage \in processingMessages \/ ~present

\* the returns of onMessageReceived and processMessageTags before the scan
ReturnsEarly ==
    ~enabled \/ rendered = "none" \/ TheMessage \in processingMessages
       \/ ~present \/ is_user

Trigger(r) ==
    /\ CanStart(r)
    /\ run' = [run EXCEPT ![r] =
         IF ReturnsEarly
         THEN [IdleRun EXCEPT !.pc = "done"]
         ELSE [IdleRun EXCEPT !.pc = "scan", !.text = mes,
                              !.over = {q \in Runs : InFlight(q)}]]
    /\ UNCHANGED <<retryVars, scanVars, textVars, backVars, setVars, build, enabled, is_user, present, mes, rendered, dom, processingMessages>>

\* variant: the identifier is added before the empty result is tested
GateAfterScanEager(tags) == processingMessages \cup {TheMessage}

\* `if (tags.length === 0) return; processingMessages.add(messageId);`
GateAfterScan(tags) ==
    IF tags = <<>> THEN processingMessages ELSE processingMessages \cup {TheMessage}

\* processMessageTags from the return of the scan to `await Promise.all`
ScanDone(r) ==
    /\ run[r].pc = "scan" /\ run[r].kind = "auto"
    /\ \E probe \in [PathPositions(run[r].text) -> ProbeOutcomes] :
         LET tags == parseImageTags(run[r].text, probe, TRUE, FALSE)
             seen == [run[r] EXCEPT !.text = <<>>, !.scanned = TRUE, !.tags = tags]
         IN
         /\ processingMessages' = GateAfterScan(tags)
         /\ IF tags = <<>>
            THEN /\ run' = [run EXCEPT ![r] = [seen EXCEPT !.pc = "done"]]
                 /\ UNCHANGED dom
            ELSE /\ WithinCap(tags)
                 /\ IF rendered # "full"
                    THEN /\ run' = [run EXCEPT ![r] = [seen EXCEPT !.pc = "done"]]
                         /\ UNCHANGED dom
                    ELSE /\ dom' = StartTags(dom, r, tags, 1)
                         /\ run' = [run EXCEPT ![r] = [seen EXCEPT !.pc = "tags",
                                      !.tpc = [i \in DOMAIN tags |->
                                          IF ThrowsBeforeAwait(tags[i]) THEN "crashed"
                                          ELSE "gen"]]]
    /\ UNCHANGED <<retryVars, scanVars, textVars, backVars, setVars, build, enabled, is_user, present, mes, rendered>>

\* ------------------------------------------------ processTag, second part
InstrOf(tag) == IF tag.fmt = "markup" THEN tag.p ELSE NoInstr

Succeed(r, i, src) ==
    /\ dom' = replaceWith(dom, r, i, FinalImage(r, i, InstrOf(run[r].tags[i]), src))
    /\ mes' = ReplaceFirst(mes, FullMatch(run[r].tags[i]), src)
    /\ run' = [run EXCEPT ![r].tpc[i] = "ok"]

Fail(r, i) ==
    /\ dom' = replaceWith(dom, r, i, createErrorPlaceholder(r, i, run[r].tags[i]))
    /\ mes' = ReplaceFirst(mes, FullMatch(run[r].tags[i]), "error")
    /\ run' = [run EXCEPT ![r].tpc[i] = "err"]

\* generateImageWithRetry settles for tag i of an automatic run
GenSettle(r, i) ==
    /\ run[r].kind = "auto" /\ run[r].pc \in {"tags", "aborted"}
    /\ i \in DOMAIN run[r].tpc /\ run[r].tpc[i] = "gen"
    /\ \E out \in GenOutcomes :
         CASE out = "fail" -> Fail(r, i)
           [] out = "url" /\ build = "part" -> Succeed(r, i, "url")
           [] OTHER -> /\ run' = [run EXCEPT ![r].tpc[i] =
                                     IF out = "url" THEN "saveUrl" ELSE "saveData"]
                       /\ UNCHANGED <<dom, mes>>
    /\ UNCHANGED <<retryVars, scanVars, textVars, backVars, setVars, build, enabled, is_user, present, rendered, processingMessages>>

\* saveImageToFile settles; it rejects a result that is not a data URL
SaveSettle(r, i) ==
    /\ run[r].kind = "auto" /\ run[r].pc \in {"tags", "aborted"}
    /\ i \in DOMAIN run[r].tpc /\ run[r].tpc[i] \in {"saveData", "saveUrl"}
    /\ \E ok \in BOOLEAN :
         IF ok /\ run[r].tpc[i] = "saveData" THEN Succeed(r, i, "done") ELSE Fail(r, i)
    /\ UNCHANGED <<retryVars, scanVars, textVars, backVars, setVars, build, enabled, is_user, present, rendered, processingMessages>>

\* Promise.all settles: it rejects as soon as one processTag has thrown
Join(r) ==
    /\ run[r].kind = "auto" /\ run[r].pc = "tags"
    /\ LET thrown == \E i \in DOMAIN run[r].tpc : run[r].tpc[i] = "crashed" IN
       /\ thrown \/ AllSettled(r)
       /\ processingMessages' = processingMessages \ {TheMessage}
       /\ run' = [run EXCEPT ![r].pc = IF thrown THEN "aborted" ELSE "done",
                             ![r].del = TRUE,
                             ![r].saves = IF thrown THEN @ ELSE @ + 1,
                             ![r].early = IF thrown THEN @ ELSE ~AllSettled(r)]
    /\ UNCHANGED <<retryVars, scanVars, textVars, backVars, setVars, build, enabled, is_user, present, mes, rendered, dom>>

\* ------------------------------------------------ regenerateMessageImages
\* the loop over the tags, from tag i to the next await or to the end
RECURSIVE RegenAdvance(_, _, _, _)
RegenAdvance(d, r, tpc, i) ==
    IF i > Len(tpc) THEN [dom |-> d, tpc |-> tpc, instr |-> NoInstr, fin |-> TRUE]
    ELSE LET j == FirstNode(d, LAMBDA x : x.k = "img" /\ x.p # NoInstr) IN
         IF j = 0 THEN RegenAdvance(d, r, [tpc EXCEPT ![i] = "skip"], i + 1)
         ELSE [dom |-> [d EXCEPT ![j] = createLoadingPlaceholder(r, i, d[j].p)],
               tpc |-> [tpc EXCEPT ![i] = "gen"], instr |-> d[j].p, fin |-> FALSE]

\* continue the loop; after the last tag release the gate and save the chat
RegenContinue(r, d, tpc, i) ==
    LET a == RegenAdvance(d, r, tpc, i) IN
    /\ dom' = a.dom
    /\ run' = [run EXCEPT ![r].tpc = a.tpc, ![r].instr = a.instr,
                          ![r].pc = IF a.fin THEN "done" ELSE "tags",
                          ![r].del = IF a.fin THEN TRUE ELSE @,
                          ![r].saves = IF a.fin THEN @ + 1 ELSE @]
    /\ processingMessages' = IF a.fin THEN processingMessages \ {TheMessage}
                             ELSE processingMessages

\* the click on the regenerate button, up to `await parseImageTags`
RegenTrigger(r) ==
    /\ CanStart(r)
    /\ rendered # "none" /\ ~is_user /\ present
    /\ run' = [run EXCEPT ![r] =
         [IdleRun EXCEPT !.pc = "scan", !.kind = "regen", !.text = mes,
                         !.gate = /\ TheMessage \in processingMessages
                                  /\ \E q \in Runs : /\ run[q].kind = "auto"
                                                      /\ run[q].pc = "tags"
                                                      /\ ~AllSettled(q)]]
    /\ UNCHANGED <<retryVars, scanVars, textVars, backVars, setVars, build, enabled, is_user, present, mes, rendered, dom, processingMessages>>

\* from the return of the forced scan to the first generation call
RegenScanDone(r) ==
    /\ run[r].pc = "scan" /\ run[r].kind = "regen"
    /\ LET tags == parseImageTags(run[r].text, <<>>, FALSE, TRUE)
           waiting == [i \in DOMAIN tags |-> "wait"]
           skipped == [i \in DOMAIN tags |-> "skip"]
       IN
       IF tags = <<>>
       THEN /\ run' = [run EXCEPT ![r].pc = "done", ![r].text = <<>>,
                                  ![r].scanned = TRUE]
            /\ UNCHANGED <<dom, processingMessages>>
       ELSE /\ WithinCap(tags)
            /\ IF rendered = "none" \/ (rendered = "noText" /\ build = "index")
               THEN /\ run' = [run EXCEPT ![r].pc = "done", ![r].text = <<>>,
                                          ![r].scanned = TRUE, ![r].tags = tags,
                                          ![r].del = TRUE]
                    /\ processingMessages' = processingMessages \ {TheMessage}
                    /\ UNCHANGED dom
               ELSE IF rendered = "noText"
               THEN /\ run' = [run EXCEPT ![r].pc = "done", ![r].text = <<>>,
                                          ![r].scanned = TRUE,
                                          ![r].tags = tags, ![r].tpc = skipped,
                                          ![r].del = TRUE, ![r].saves = @ + 1]
                    /\ processingMessages' = processingMessages \ {TheMessage}
                    /\ UNCHANGED dom
               ELSE LET a == RegenAdvance(dom, r, waiting, 1) IN
                    /\ dom' = a.dom
                    /\ run' = [run EXCEPT ![r].text = <<>>, ![r].tags = tags,
                                 ![r].scanned = TRUE,
                                 ![r].tpc = a.tpc, ![r].instr = a.instr,
                                 ![r].pc = IF a.fin THEN "done" ELSE "tags",
                                 ![r].del = a.fin,
                                 ![r].saves = IF a.fin THEN @ + 1 ELSE @]
                    /\ processingMessages' =
                         IF a.fin THEN processingMessages \ {TheMessage}
                         ELSE processingMessages \cup {TheMessage}
    /\ UNCHANGED <<retryVars, scanVars, textVars, backVars, setVars, build, enabled, is_user, present, mes, rendered>>

\* the image of tag i is in place: final image, rewritten source, next tag
RegenSucceed(r, i, src) ==
    LET tag == run[r].tags[i] IN
    /\ mes' = IF tag.fmt = "markup" THEN ReplaceFirst(mes, FullMatch(tag), src) ELSE mes
    /\ RegenContinue(r, replaceWith(dom, r, i, FinalImage(r, i, run[r].instr, src)),
                     [run[r].tpc EXCEPT ![i] = "ok"], i + 1)

\* variant: the loop goes on to the next tag while tag i is still in flight
RegenFailInFlight(r, i) ==
    /\ mes' = mes
    /\ RegenContinue(r, dom, run[r].tpc, i + 1)

\* the catch clause only reports the error
RegenFail(r, i) ==
    /\ mes' = mes
    /\ RegenContinue(r, dom, [run[r].tpc EXCEPT ![i] = "err"], i + 1)

RegenGenSettle(r, i) ==
    /\ run[r].kind = "regen" /\ run[r].pc = "tags"
    /\ i \in DOMAIN run[r].tpc /\ run[r].tpc[i] = "gen"
    /\ \E out \in GenOutcomes :
         CASE out = "fail" -> RegenFail(r, i)
           [] out = "url" /\ build = "part" -> RegenSucceed(r, i, "url")
           [] OTHER -> /\ run' = [run EXCEPT ![r].tpc[i] =
                                     IF out = "url" THEN "saveUrl" ELSE "saveData"]
                       /\ UNCHANGED <<dom, mes, processingMessages>>
    /\ UNCHANGED <<retryVars, scanVars, textVars, backVars, setVars, build, enabled, is_user, present, rendered>>

RegenSaveSettle(r, i) ==
    /\ run[r].kind = "regen" /\ run[r].pc = "tags"
    /\ i \in DOMAIN run[r].tpc /\ run[r].tpc[i] \in {"saveData", "saveUrl"}
    /\ \E ok \in BOOLEAN :
         IF ok /\ run[r].tpc[i] = "saveData" THEN RegenSucceed(r, i, "done")
         ELSE RegenFail(r, i)
    /\ UNCHANGED <<retryVars, scanVars, textVars, backVars, setVars, build, enabled, is_user, present, rendered>>

\* the host removes the message element from the page while a handler is
\* suspended in its scan (handlers past the scan keep the elements they hold,
\* and no handler starts on a message that is not on the page)
HostUnrender ==
    /\ rendered = "full"
    /\ \E r \in Runs : run[r].pc = "scan"
    /\ rendered' = "none"
    /\ UNCHANGED <<retryVars, scanVars, textVars, backVars, setVars, build, enabled, is_user, present, mes, dom, processingMessages, run>>

Next ==
    \/ \E r \in Runs : Trigger(r)
    \/ \E r \in Runs : ScanDone(r)
    \/ \E r \in Runs, i \in 1..MaxTags : GenSettle(r, i)
    \/ \E r \in Runs, i \in 1..MaxTags : SaveSettle(r, i)
    \/ \E r \in Runs : Join(r)
    \/ \E r \in Runs : RegenTrigger(r)
    \/ \E r \in Runs : RegenScanDone(r)
    \/ \E r \in Runs, i \in 1..MaxTags : RegenGenSettle(r, i)
    \/ \E r \in Runs, i \in 1..MaxTags : RegenSaveSettle(r, i)
    \/ HostUnrender

Spec == Init /\ [][Next]_vars

\* ------------------------------------------------- generateImageWithRetry
\* An error is what the retry test can see of it: error.message is
\* `API Error (<status>): <body>` for a backend answer that is not ok, the
\* browser's text for a failed fetch, a fixed or quoted text for a missing
\* image.  `has` lists the substrings among those the code looks for that
\* the body or text contains.

ApiErrors ==
    [kind : {"api"}, status : {"429", "502", "503", "504"}, has : {{}}]
    \cup [kind : {"api"}, status : {"400", "500"}, has : {{}, {"503"}, {"timeout"}}]
\* variant: only the first missing field is reported
validateSettingsFirst(cfg) ==
    LET errors == SelectSeq(ConfigFields, LAMBDA f : cfg[f] = "")
    IN IF errors = <<>> THEN errors ELSE <<Head(errors)>>

\* validateSettings: the fields that are not set, in the order they are tested
validateSettings(cfg) == SelectSeq(ConfigFields, LAMBDA f : cfg[f] = "")

\* `Ошибка настроек: <errors joined>`
ConfigError(errors) == [kind |-> "config", status |-> "-", has |-> {}, names |-> errors]
configOk == validateSettings(config) = <<>>
Errors == ApiErrors \cup [kind : {"noimage", "network"}, status : {"-"}, has : {{}, {"network"}}]
Success == [kind |-> "ok", status |-> "200", has |-> {}]
Answers == Errors \cup {Success}

\* error.message?.includes(sub)
Includes(e, sub) == (e.kind = "api" /\ e.status = sub) \/ sub \in e.has

RetryableSignatures ==
    IF build = "index" THEN {"429", "503", "502", "504", "timeout", "network"}
    ELSE {"429", "503", "502", "network"}

isRetryable(e) == \E sub \in RetryableSignatures : Includes(e, sub)

RECURSIVE Pow2(_)
Pow2(n) == IF n = 0 THEN 1 ELSE 2 * Pow2(n - 1)

\* variant: the same delay before every retry
BackoffDelayFlat(baseDelay, n) == baseDelay

\* baseDelay * Math.pow(2, attempt)
BackoffDelay(baseDelay, n) == baseDelay * Pow2(n)

Event(e, v) == [e |-> e, v |-> v]

\* variant: the first error caught is the one kept
CaughtFirst(prev, error) == IF prev = NoError THEN error ELSE prev

\* `lastError = error`
Caught(prev, error) == error

\* getCharacterAvatarBase64 / getUserAvatarBase64: one request each
FetchAvatar(who) == <<Event("fetch", who)>>
AvatarLists == {<<>>, <<"char">>, <<"user">>, <<"char", "user">>}

\* `Генерация...` status, then the backend call of this attempt
StartAttempt(n) == <<Event("status", n), Event("call", n)>>

\* `Повтор через <delay/1000>с...` status, then the sleep
StartBackoff(delay) == <<Event("backoff", delay), Event("sleep", delay)>>

BaseDelays == {500, 1000}

RecIdle ==
    /\ enabled = TRUE /\ is_user = FALSE /\ present = TRUE /\ mes = <<>> /\ rendered = "none"
    /\ dom = <<>> /\ processingMessages = {} /\ run = [r \in Runs |-> IdleRun]

InitRetry ==
    /\ RecIdle /\ ScanIdle /\ TextIdle /\ BackIdle /\ SetIdle
    /\ build \in Builds
    /\ config \in Configs
    /\ avatars \in AvatarLists
    /\ maxRetries \in 0..MaxRetriesCfg
    /\ retryDelay \in BaseDelays
    /\ script \in [1..(maxRetries + 1) -> Answers]
    /\ ~configOk => script = [n \in 1..(maxRetries + 1) |-> Success]
    /\ attempt = 0 /\ rpc = "idle" /\ lastError = NoError /\ fails = <<>> /\ log = <<>>

\* validateSettings, then up to the first await: an avatar request, or the
\* backend call of the first iteration of the loop
RetryStart ==
    /\ rpc = "idle"
    /\ LET errors == validateSettings(config) IN
       IF errors # <<>>
       THEN /\ rpc' = "thrown" /\ lastError' = ConfigError(errors)
            /\ UNCHANGED log
       ELSE /\ UNCHANGED lastError
            /\ IF avatars # <<>>
               THEN rpc' = "avatar" /\ log' = log \o FetchAvatar(Head(avatars))
               ELSE rpc' = "call" /\ log' = log \o StartAttempt(0)
    /\ UNCHANGED <<config, avatars, maxRetries, retryDelay, script, attempt, fails>>
    /\ UNCHANGED <<scanVars, textVars, backVars, setVars, build, enabled, is_user, present, mes, rendered, dom, processingMessages, run>>

\* an avatar request settles (with an image or with null): the next avatar
\* request, or the backend call of the first iteration of the loop
AvatarSettle ==
    /\ rpc = "avatar"
    /\ avatars' = Tail(avatars)
    /\ IF avatars' # <<>>
       THEN rpc' = "avatar" /\ log' = log \o FetchAvatar(Head(avatars'))
       ELSE rpc' = "call" /\ log' = log \o StartAttempt(0)
    /\ UNCHANGED <<config, maxRetries, retryDelay, script, attempt, lastError, fails>>
    /\ UNCHANGED <<scanVars, textVars, backVars, setVars, build, enabled, is_user, present, mes, rendered, dom, processingMessages, run>>

\* the backend call of this attempt settles
AttemptSettle ==
    /\ rpc = "call"
    /\ LET answer == Head(script) IN
       IF answer = Success
       THEN /\ rpc' = "returned"
            /\ UNCHANGED <<lastError, fails, log>>
       ELSE /\ lastError' = Caught(lastError, answer)
            /\ fails' = Append(fails, answer)
            /\ IF ~isRetryable(answer) \/ attempt = maxRetries
               THEN /\ rpc' = "thrown"
                    /\ UNCHANGED log
               ELSE /\ rpc' = "sleep"
                    /\ log' = log \o StartBackoff(BackoffDelay(retryDelay, attempt))
    /\ script' = Tail(script)
    /\ UNCHANGED <<config, avatars, maxRetries, retryDelay, attempt>>
    /\ UNCHANGED <<scanVars, textVars, backVars, setVars, build, enabled, is_user, present, mes, rendered, dom, processingMessages, run>>

\* the backoff timer fires: next iteration up to the backend call
SleepDone ==
    /\ rpc = "sleep"
    /\ attempt' = attempt + 1
    /\ rpc' = "call"
    /\ log' = log \o StartAttempt(attempt + 1)
    /\ UNCHANGED <<config, avatars, maxRetries, retryDelay, script, lastError, fails>>
    /\ UNCHANGED <<scanVars, textVars, backVars, setVars, build, enabled, is_user, present, mes, rendered, dom, processingMessages, run>>

NextRetry == RetryStart \/ AvatarSettle \/ AttemptSettle \/ SleepDone

SpecRetry == InitRetry /\ [][NextRetry]_vars

\* every request and every timer of a call in progress settles
SpecRetryFair == SpecRetry /\ WF_vars(NextRetry)

\* ------------------------------------------- parseImageTags, on the text
\* Here a text is a sequence of tokens: the characters and character groups
\* the scanner distinguishes.  A position is the index of a token; Off gives
\* the character offset where a distance in characters is tested.
Width(t) ==
    CASE t = "PAD" -> 500
      [] t = "PAD496" -> 496
      [] t = "<img" -> 4
      [] t = "data-iig-instruction=" -> 21
      [] t = "src=" -> 4
      [] t \in {"[IMG:GEN]", "[IMG:GEN:"} -> 9
      [] t = "&quot;" -> 6
      [] t = "/user/images/fox.png" -> 20
      [] t = "/scripts/extensions/third-party/sillyimages/error.svg" -> 53
      [] t = "http://cdn/fox.png" -> 18
      [] t = "/a.p" -> 4
      [] t \in {"prompt", "style"} -> 6
      [] t \in {"Hello", "world"} -> 5
      [] t \in {"fox", "cat", "123"} -> 3
      [] t = "API Error (" -> 11
      [] t \in {"400", "429", "500", "502", "503", "504", "): "} -> 3
      [] t = "BODY33" -> 33
      [] t = "BODY31" -> 31
      [] t = "TAIL" -> 20
      [] t \in {"$&", "$$"} -> 2
      [] t = "No image data in response" -> 25
      [] t = "Failed to fetch" -> 15
      [] t = "network error" -> 13
      [] t = "Invalid data URL format" -> 23
      [] t = "Upload failed: 500" -> 18
      [] OTHER -> 1

RECURSIVE Off(_, _)
Off(text, k) == IF k <= 1 THEN 0 ELSE Off(text, k - 1) + Width(text[k - 1])

\* text.indexOf(tok, from), text.lastIndexOf(tok, upto): 0 stands for -1
IndexOf(text, tok, from) ==
    LET S == {k \in DOMAIN text : k >= from /\ text[k] = tok}
    IN IF S = {} THEN 0 ELSE Min(S)

LastIndexOf(text, tok, upto) ==
    LET S == {k \in DOMAIN text : k <= upto /\ text[k] = tok}
    IN IF S = {} THEN 0 ELSE CHOOSE k \in S : \A j \in S : j <= k

\* variant: a lookback twice as long
LookbackWindowWide == 2 * 500
LookbackWindow == 500
JsonStartWindow == 10

\* the balanced-brace loop from position i: the position of the closing
\* brace that brings the count back to zero, 0 when the text ends first
RECURSIVE BraceEnd(_, _, _, _, _)
BraceEnd(text, i, braceCount, inString, escapeNext) ==
    IF i > Len(text) THEN 0
    ELSE LET char == text[i] IN
         IF escapeNext THEN BraceEnd(text, i + 1, braceCount, inString, FALSE)
         ELSE IF char = "\\" /\ inString
         THEN BraceEnd(text, i + 1, braceCount, inString, TRUE)
         ELSE IF char = "\""
         THEN BraceEnd(text, i + 1, braceCount, ~inString, FALSE)
         ELSE IF ~inString /\ char = "{"
         THEN BraceEnd(text, i + 1, braceCount + 1, inString, FALSE)
         ELSE IF ~inString /\ char = "}"
         THEN IF braceCount - 1 = 0 THEN i
              ELSE BraceEnd(text, i + 1, braceCount - 1, inString, FALSE)
         ELSE BraceEnd(text, i + 1, braceCount, inString, FALSE)

\* ---- JSON.parse, for the payloads the extension meets: an object whose
\* values are strings, numbers or objects.  A string value is the sequence
\* of its tokens.
JsonFail == [ok |-> FALSE, next |-> 0, val |-> <<>>]
JsonOk(next, val) == [ok |-> TRUE, next |-> next, val |-> val]

RECURSIVE SkipWs(_, _)
SkipWs(s, i) == IF i <= Len(s) /\ s[i] = " " THEN SkipWs(s, i + 1) ELSE i

\* the characters of a string literal whose opening quote is before i
RECURSIVE JsonChars(_, _, _)
JsonChars(s, i, acc) ==
    IF i > Len(s) THEN JsonFail
    ELSE IF s[i] = "\"" THEN JsonOk(i + 1, [t |-> "str", v |-> acc])
    ELSE IF s[i] = "\\"
    THEN IF i + 1 <= Len(s) /\ s[i + 1] \in {"\"", "\\"}
         THEN JsonChars(s, i + 2, Append(acc, s[i + 1]))
         ELSE JsonFail
    ELSE JsonChars(s, i + 1, Append(acc, s[i]))

Numbers == {"123"}

RECURSIVE JsonValue(_, _)
RECURSIVE JsonMembers(_, _, _)
JsonValue(s, i) ==
    IF i > Len(s) THEN JsonFail
    ELSE IF s[i] = "\"" THEN JsonChars(s, i + 1, <<>>)
    ELSE IF s[i] \in Numbers THEN JsonOk(i + 1, [t |-> "num", v |-> <<s[i]>>])
    ELSE IF s[i] = "{"
    THEN LET j == SkipWs(s, i + 1) IN
         IF j <= Len(s) /\ s[j] = "}" THEN JsonOk(j + 1, [t |-> "obj", v |-> <<>>])
         ELSE JsonMembers(s, j, <<>>)
    ELSE JsonFail

\* `"key" : value` pairs up to the closing brace
JsonMembers(s, i, acc) ==
    IF i > Len(s) \/ s[i] # "\"" THEN JsonFail
    ELSE LET key == JsonChars(s, i + 1, <<>>) IN
         IF ~key.ok THEN JsonFail
         ELSE LET c == SkipWs(s, key.next) IN
              IF c > Len(s) \/ s[c] # ":" THEN JsonFail
              ELSE LET val == JsonValue(s, SkipWs(s, c + 1)) IN
                   IF ~val.ok THEN JsonFail
                   ELSE LET e == SkipWs(s, val.next)
                            pairs == Append(acc, <<key.val.v, val.val>>)
                        IN IF e > Len(s) THEN JsonFail
                           ELSE IF s[e] = "}"
                           THEN JsonOk(e + 1, [t |-> "obj", v |-> pairs])
                           ELSE IF s[e] = ","
                           THEN JsonMembers(s, SkipWs(s, e + 1), pairs)
                           ELSE JsonFail

\* JSON.parse(s): the whole text must be one value
JsonParse(s) ==
    LET r == JsonValue(s, SkipWs(s, 1)) IN
    IF r.ok /\ SkipWs(s, r.next) = Len(s) + 1 THEN r ELSE JsonFail

\* ---- the source attribute: /src\s*=\s*["']?([^"'\s>]+)/ on the element
ValueStops == {"\"", "'", " ", ">"}

RECURSIVE ValueRun(_, _)
ValueRun(s, i) ==
    IF i > Len(s) \/ s[i] \in ValueStops THEN <<>> ELSE <<s[i]>> \o ValueRun(s, i + 1)

\* the value captured at the occurrence of `src=` at position k, <<>> when
\* the pattern does not match there
SrcAt(s, k) ==
    LET j == SkipWs(s, k + 1) IN
    IF j <= Len(s) /\ s[j] \in {"\"", "'"} THEN ValueRun(s, j + 1) ELSE ValueRun(s, j)

\* srcMatch ? srcMatch[1] : ''
SrcValue(s) ==
    LET S == {k \in DOMAIN s : s[k] = "src=" /\ SrcAt(s, k) # <<>>}
    IN IF S = {} THEN <<>> ELSE SrcAt(s, Min(S))

ErrorImagePath == "/scripts/extensions/third-party/sillyimages/error.svg"

hasMarker(srcValue) == \E n \in DOMAIN srcValue : srcValue[n] \in {"[IMG:GEN]", "[IMG:GEN:"}
hasErrorImage(srcValue) == \E n \in DOMAIN srcValue : srcValue[n] = ErrorImagePath
hasPath(srcValue) ==
    /\ srcValue # <<>> /\ srcValue[1] \in {"/user/images/fox.png", ErrorImagePath, "/a.p"}
    /\ Off(srcValue, Len(srcValue) + 1) > 5

\* the entity escapes reversed before the markup payload is parsed
Decoded(t) ==
    CASE t \in {"&quot;", "&#34;"} -> "\""
      [] t \in {"&apos;", "&#39;"} -> "'"
      [] t = "&amp;" -> "&"
      [] OTHER -> t
DecodeEntities(s) == [n \in DOMAIN s |-> Decoded(s[n])]

\* jsonStr.replace(/'/g, '"') before the legacy payload is parsed
DoubleQuotes(s) == [n \in DOMAIN s |-> IF s[n] = "'" THEN "\"" ELSE s[n]]

EmptyString == [t |-> "str", v |-> <<>>]

\* data.<key> || '': the last member of that name, '' when it is missing
\* or an empty string
Field(data, key) ==
    IF data.t # "obj" THEN EmptyString
    ELSE LET S == {n \in DOMAIN data.v : data.v[n][1] = <<key>>} IN
         IF S = {} THEN EmptyString
         ELSE data.v[CHOOSE n \in S : \A j \in S : j <= n][2]

\* the tag pushed for a parsed payload; probe records the answer of the
\* existence probe made for it ("none" when none was made)
TextTag(fullMatch, index, data, isNewFormat, existingSrc, probe) ==
    [fullMatch |-> fullMatch, index |-> index, style |-> Field(data, "style"),
     prompt |-> Field(data, "prompt"), isNewFormat |-> isNewFormat,
     existingSrc |-> existingSrc, probe |-> probe]

\* one iteration of a scan loop: the loop ends, or goes on from `next`
\* with the tags pushed by this iteration; probed is the position of the
\* element an existence probe was made for, 0 when none was made
IterEnd == [done |-> TRUE, next |-> 0, tags |-> <<>>, probed |-> 0]
\* variant: the loop resumes one position earlier
IterGoEarlier(next, tags, probed) ==
    [done |-> FALSE, next |-> next - 1, tags |-> tags, probed |-> probed]
IterGo(next, tags, probed) == [done |-> FALSE, next |-> next, tags |-> tags, probed |-> probed]

\* one iteration of the markup loop
MarkupIter(text, from, outcome, checkExistence, forceAll) ==
    LET markerPos == IndexOf(text, "data-iig-instruction=", from) IN
    IF markerPos = 0 THEN IterEnd
    ELSE
    LET imgStart == LastIndexOf(text, "<img", markerPos) IN
    IF imgStart = 0 \/ Off(text, markerPos) - Off(text, imgStart) > LookbackWindow
    THEN IterGo(markerPos + 1, <<>>, 0)
    ELSE
    LET jsonStart == IndexOf(text, "{", markerPos + 1) IN
    IF jsonStart = 0 \/ Off(text, jsonStart) > Off(text, markerPos + 1) + JsonStartWindow
    THEN IterGo(markerPos + 1, <<>>, 0)
    ELSE
    LET close == BraceEnd(text, jsonStart, 0, FALSE, FALSE) IN
    IF close = 0 THEN IterGo(markerPos + 1, <<>>, 0)
    ELSE
    LET gt == IndexOf(text, ">", close + 1) IN
    IF gt = 0 THEN IterGo(markerPos + 1, <<>>, 0)
    ELSE
    LET imgEnd == gt + 1
        fullImgTag == SubSeq(text, imgStart, gt)
        instructionJson == SubSeq(text, jsonStart, close)
        srcValue == SrcValue(fullImgTag)
        probed == ~forceAll /\ ~(hasMarker(srcValue) \/ srcValue = <<>>)
                  /\ hasPath(srcValue) /\ checkExistence
        needsGeneration ==
            IF forceAll THEN TRUE
            ELSE IF hasMarker(srcValue) \/ srcValue = <<>> THEN TRUE
            ELSE IF hasPath(srcValue) /\ checkExistence THEN ~checkFileExists(outcome)
            ELSE FALSE
        data == JsonParse(DecodeEntities(instructionJson))
    IN
    IF hasErrorImage(srcValue) /\ ~forceAll THEN IterGo(imgEnd, <<>>, 0)
    ELSE IF ~needsGeneration THEN IterGo(imgEnd, <<>>, IF probed THEN imgStart ELSE 0)
    ELSE IF ~data.ok THEN IterGo(imgEnd, <<>>, IF probed THEN imgStart ELSE 0)
    ELSE IterGo(imgEnd,
                <<TextTag(fullImgTag, imgStart, data.val, TRUE,
                          IF hasPath(srcValue) THEN srcValue ELSE <<>>,
                          IF probed THEN outcome ELSE "none")>>,
                IF probed THEN imgStart ELSE 0)

\* one iteration of the legacy loop
LegacyIter(text, searchStart) ==
    LET markerIndex == IndexOf(text, "[IMG:GEN:", searchStart) IN
    IF markerIndex = 0 THEN IterEnd
    ELSE
    LET jsonStart == markerIndex + 1
        close == BraceEnd(text, jsonStart, 0, FALSE, FALSE)
    IN
    IF close = 0 THEN IterGo(jsonStart, <<>>, 0)
    ELSE IF ~(close + 1 <= Len(text) /\ text[close + 1] = "]")
    THEN IterGo(close + 1, <<>>, 0)
    ELSE
    LET tagOnly == SubSeq(text, markerIndex, close + 1)
        data == JsonParse(DoubleQuotes(SubSeq(text, jsonStart, close)))
    IN IterGo(close + 2,
              IF data.ok
              THEN <<TextTag(tagOnly, markerIndex, data.val, FALSE, <<>>, "none")>>
              ELSE <<>>,
              0)

\* ---- the texts scanned: up to MaxPieces pieces, each a run of plain text
\* or one instruction marker.  q is the quote of the payload's strings,
\* body the value of its prompt, src the form of the source attribute.
PromptBodies ==
    {<<"fox">>, <<"a", " ", "{", "cat", "}">>, <<"a", "}">>, <<"it", "'", "s">>}

Payload(q, body) ==
    <<"{", q, "prompt", q, ":", q>> \o body \o <<q, ",", q, "style", q, ":", q, "cat", q, "}">>

SrcForms == {"quoted", "unquoted", "absent", "empty", "path", "error", "url", "short"}

SrcPart(src) ==
    CASE src = "quoted" -> <<" ", "src=", "\"", "[IMG:GEN]", "\"">>
      [] src = "unquoted" -> <<" ", "src=", "[IMG:GEN]">>
      [] src = "absent" -> <<>>
      [] src = "empty" -> <<" ", "src=", "\"", "\"">>
      [] src = "path" -> <<" ", "src=", "\"", "/user/images/fox.png", "\"">>
      [] src = "error" -> <<" ", "src=", "\"", ErrorImagePath, "\"">>
      [] src = "url" -> <<" ", "src=", "\"", "http://cdn/fox.png", "\"">>
      [] src = "short" -> <<" ", "src=", "\"", "/a.p", "\"">>

\* the attribute is delimited by the quote the payload does not use
AttrQuote(q) == IF q = "\"" THEN "'" ELSE "\""

\* a payload that JSON.parse refuses (no colon), and one whose closing brace
\* is missing
BadPayload(q, body) == <<"{", q, "prompt", q, q>> \o body \o <<q, "}">>
OpenPayload(q, body) == SubSeq(Payload(q, body), 1, Len(Payload(q, body)) - 1)

\* the instruction attribute and what follows it in the element
Attrs(p, payload) ==
    <<"data-iig-instruction=", AttrQuote(p.q)>> \o payload \o <<AttrQuote(p.q)>>
    \o SrcPart(p.src)

\* besides the well-formed markers ("markup", "legacy"): a marker with no
\* `<img` of its own ("orphan"), a marker 504 ("far") and 500 ("near")
\* characters after its `<img`, and the malformed candidates
PieceTokens(p) ==
    CASE p.fam = "plain" -> <<"Hello">>
      [] p.fam = "markup" ->
           <<"<img", " ", "data-iig-instruction=", AttrQuote(p.q)>>
           \o Payload(p.q, p.body) \o <<AttrQuote(p.q)>> \o SrcPart(p.src) \o <<">">>
      [] p.fam = "legacy" -> <<"[IMG:GEN:">> \o Payload(p.q, p.body) \o <<"]">>
      [] p.fam = "orphan" -> Attrs(p, Payload(p.q, p.body)) \o <<">">>
      [] p.fam = "far" -> <<"<img", "PAD">> \o Attrs(p, Payload(p.q, p.body)) \o <<">">>
      [] p.fam = "near" -> <<"<img", "PAD496">> \o Attrs(p, Payload(p.q, p.body)) \o <<">">>
      [] p.fam = "badJson" -> <<"<img", " ">> \o Attrs(p, BadPayload(p.q, p.body)) \o <<">">>
      [] p.fam = "unbalanced" ->
           <<"<img", " ">> \o Attrs(p, OpenPayload(p.q, p.body)) \o <<">">>
      [] p.fam = "noClose" -> <<"<img", " ">> \o Attrs(p, Payload(p.q, p.body))
      [] p.fam = "legacyBadJson" -> <<"[IMG:GEN:">> \o BadPayload(p.q, p.body) \o <<"]">>
      [] p.fam = "legacyUnbalanced" ->
           <<"[IMG:GEN:">> \o OpenPayload(p.q, p.body) \o <<"]">>
      [] p.fam = "legacyNoBracket" -> <<"[IMG:GEN:">> \o Payload(p.q, p.body)
      [] p.fam = "legacyNoBrace" -> <<"[IMG:GEN:">> \o p.body \o <<"]">>

Piece(fam, q, body, src) == [fam |-> fam, q |-> q, body |-> body, src |-> src]

Pieces ==
    {Piece("plain", "-", <<>>, "-")}
    \cup {Piece("markup", "\"", <<"fox">>, src) : src \in SrcForms}
    \cup {Piece("markup", "\"", body, "quoted") : body \in PromptBodies}
    \cup {Piece("markup", "&quot;", body, "quoted") : body \in {<<"fox">>, <<"a", "}">>}}
    \cup {Piece("legacy", "\"", body, "-") : body \in PromptBodies}
    \cup {Piece("legacy", "'", body, "-") : body \in {<<"fox">>, <<"a", "}">>}}
    \cup {Piece(fam, "\"", <<"fox">>, "quoted") : fam \in
         {"orphan", "far", "near", "badJson", "unbalanced", "noClose",
          "legacyBadJson", "legacyUnbalanced", "legacyNoBracket", "legacyNoBrace"}}

RECURSIVE Flatten(_)
Flatten(ps) == IF ps = <<>> THEN <<>> ELSE PieceTokens(Head(ps)) \o Flatten(Tail(ps))

\* the position of the first token of piece n
StartOf(ps, n) == Len(Flatten(SubSeq(ps, 1, n - 1))) + 1

\* ---- parseImageTags as a process: one step per loop iteration
InitScan ==
    /\ RecIdle /\ RetryIdle /\ TextIdle /\ BackIdle /\ SetIdle /\ build \in Builds
    /\ pieces \in UNION {[1..n -> Pieces] : n \in 1..MaxPieces}
    /\ options \in [checkExistence : BOOLEAN, forceAll : BOOLEAN]
    /\ phase = "markup" /\ searchPos = 1 /\ found = <<>> /\ probes = <<>>

\* one iteration of the markup loop; the loop's end starts the legacy loop
ScanMarkupStep ==
    /\ phase = "markup"
    /\ \E outcome \in ProbeOutcomes :
         LET it == MarkupIter(Flatten(pieces), searchPos, outcome,
                              options.checkExistence, options.forceAll)
         IN IF it.done
            THEN /\ outcome = "ok"
                 /\ phase' = "legacy" /\ searchPos' = 1
                 /\ UNCHANGED <<found, probes>>
            ELSE /\ it.probed # 0 \/ outcome = "ok"
                 /\ searchPos' = it.next
                 /\ found' = found \o it.tags
                 /\ probes' = IF it.probed # 0
                              THEN Append(probes, <<it.probed, outcome>>)
                              ELSE probes
                 /\ UNCHANGED phase
    /\ UNCHANGED <<pieces, options>>
    /\ UNCHANGED <<retryVars, textVars, backVars, setVars, build, enabled, is_user, present, mes, rendered, dom, processingMessages, run>>

\* one iteration of the legacy loop; the loop's end returns the tags
ScanLegacyStep ==
    /\ phase = "legacy"
    /\ LET it == LegacyIter(Flatten(pieces), searchPos)
       IN IF it.done
          THEN phase' = "done" /\ UNCHANGED <<searchPos, found>>
          ELSE searchPos' = it.next /\ found' = found \o it.tags /\ UNCHANGED phase
    /\ UNCHANGED <<pieces, options, probes>>
    /\ UNCHANGED <<retryVars, textVars, backVars, setVars, build, enabled, is_user, present, mes, rendered, dom, processingMessages, run>>

NextScan == ScanMarkupStep \/ ScanLegacyStep

SpecScan == InitScan /\ [][NextScan]_vars

\* --------------------------------- processTag, on the text of the message
\* parseImageTags run to its end: the markup loop, then the legacy loop
RECURSIVE ScanMarkup(_, _, _, _, _)
ScanMarkup(text, from, outcome, checkExistence, forceAll) ==
    LET it == MarkupIter(text, from, outcome, checkExistence, forceAll) IN
    IF it.done THEN <<>>
    ELSE it.tags \o ScanMarkup(text, it.next, outcome, checkExistence, forceAll)

RECURSIVE ScanLegacy(_, _)
ScanLegacy(text, from) ==
    LET it == LegacyIter(text, from) IN
    IF it.done THEN <<>> ELSE it.tags \o ScanLegacy(text, it.next)

ScanText(text, outcome, checkExistence, forceAll) ==
    ScanMarkup(text, 1, outcome, checkExistence, forceAll) \o ScanLegacy(text, 1)

\* s.substring(0, n): the tokens that fit into the first n characters
RECURSIVE Substring(_, _)
Substring(s, n) ==
    IF s = <<>> \/ Width(Head(s)) > n THEN <<>>
    ELSE <<Head(s)>> \o Substring(Tail(s), n - Width(Head(s)))

\* the response body quoted by an API error: it may be empty, and 33
\* characters of it fit into the 50 characters kept of the message
Bodies(e) ==
    IF e.kind = "api" THEN {<<>>, <<"BODY33", "TAIL">>, <<"$&", "BODY31", "TAIL">>}
    ELSE {<<>>}

\* error.message
ErrorMessage(e, body) ==
    CASE e.kind = "api" -> <<"API Error (", e.status, "): ">> \o body
      [] e.kind = "noimage" -> <<"No image data in response">>
      [] e.kind = "network" -> IF "network" \in e.has THEN <<"network error">>
                               ELSE <<"Failed to fetch">>
      [] e.kind = "save" -> <<"Invalid data URL format">>
      [] e.kind = "upload" -> <<"Upload failed: 500">>

\* the replacement patterns of String.prototype.replace: $$ is a dollar
\* sign, $& the matched text, $` and $' the text before and after it
RECURSIVE Expand(_, _, _, _)
Expand(repl, before, match, after) ==
    IF repl = <<>> THEN <<>>
    ELSE (CASE Head(repl) = "$$" -> <<"$">>
            [] Head(repl) = "$&" -> match
            [] Head(repl) = "$`" -> before
            [] Head(repl) = "$'" -> after
            [] OTHER -> <<Head(repl)>>)
         \o Expand(Tail(repl), before, match, after)

\* the first occurrence of pat in text, 0 when there is none
FindSub(text, pat) ==
    LET S == {k \in 1..(Len(text) - Len(pat) + 1) : SubSeq(text, k, k + Len(pat) - 1) = pat}
    IN IF S = {} THEN 0 ELSE Min(S)

\* text.replace(pat, repl) with a string pattern: the first occurrence only
StringReplace(text, pat, repl) ==
    LET k == FindSub(text, pat) IN
    IF k = 0 THEN text
    ELSE LET before == SubSeq(text, 1, k - 1)
             after == SubSeq(text, k + Len(pat), Len(text))
         IN before \o Expand(repl, before, pat, after) \o after

\* the end of a match of /src\s*=\s*(['"])[^'"]*\1/ at the `src=` at k: the
\* position of the closing quote, 0 when the pattern does not match there
QuotedSrcEnd(s, k) ==
    LET j == SkipWs(s, k + 1) IN
    IF j > Len(s) \/ s[j] \notin {"\"", "'"} THEN 0
    ELSE LET e == Min({n \in (j + 1)..(Len(s) + 1) : n = Len(s) + 1 \/ s[n] \in {"\"", "'"}})
         IN IF e <= Len(s) /\ s[e] = s[j] THEN e ELSE 0

\* tag.fullMatch.replace(/src\s*=\s*(['"])[^'"]*\1/i, `src="${value}"`)
ReplaceSrc(fullMatch, value) ==
    LET S == {k \in DOMAIN fullMatch : fullMatch[k] = "src=" /\ QuotedSrcEnd(fullMatch, k) # 0}
    IN IF S = {} THEN fullMatch
       ELSE LET k == Min(S)
                e == QuotedSrcEnd(fullMatch, k)
                before == SubSeq(fullMatch, 1, k - 1)
                after == SubSeq(fullMatch, e + 1, Len(fullMatch))
            IN before
               \o Expand(<<"src=", "\"">> \o value \o <<"\"">>, before,
                         SubSeq(fullMatch, k, e), after)
               \o after

\* the text after the success of a tag ([IMG:DONE: stands for `[IMG:✓:`)
WriteSuccess(text, tag, imagePath) ==
    IF tag.isNewFormat
    THEN StringReplace(text, tag.fullMatch, ReplaceSrc(tag.fullMatch, imagePath))
    ELSE StringReplace(text, tag.fullMatch, <<"[IMG:DONE:">> \o imagePath \o <<"]">>)

\* the text after the failure of a tag
WriteError(text, tag, error, body) ==
    IF tag.isNewFormat
    THEN StringReplace(text, tag.fullMatch, ReplaceSrc(tag.fullMatch, <<ErrorImagePath>>))
    ELSE StringReplace(text, tag.fullMatch,
                       <<"[IMG:ERROR:">> \o Substring(ErrorMessage(error, body), 50) \o <<"]">>)

\* ---- processMessageTags on the text of one message: the tags of a trigger
\* are generated concurrently and each rewrites message.mes when it settles,
\* in any order; the next trigger comes after the previous one has finished.
MaxTriggers == 2  \* automatic triggers on the message

\* the answers of the backend considered for a message: the bodies quoted by
\* these errors contain none of the substrings the retry test looks for
TextAnswers == {Success} \cup {e \in ApiErrors : e.status \in {"500", "503"} /\ e.has = {}}

\* result.path of the upload, with the character's name (`Ca$$h`) as folder
SavedPaths == {<<"/user/images/fox.png">>, <<"/user/images/Ca", "$$", "h/fox.png">>}


TextPieces ==
    {Piece("plain", "-", <<>>, "-"), Piece("legacy", "\"", <<"fox">>, "-")}
    \cup {Piece("markup", "\"", <<"fox">>, src) : src \in {"quoted", "unquoted", "absent"}}
    \cup {Piece("markup", "\"", <<"a", "$$">>, "quoted")}

\* the message: the pieces between two runs of plain text
MessageOf(ps) == <<"Hello", " ">> \o Flatten(ps) \o <<" ", "world">>

Without(s, k) == SubSeq(s, 1, k - 1) \o SubSeq(s, k + 1, Len(s))

Settlement(tag, ok, value, before, after) ==
    [tag |-> tag, ok |-> ok, value |-> value, before |-> before, after |-> after]

\* a tag of the message: where it starts and what it reads
Key(tag) == [index |-> tag.index, fullMatch |-> tag.fullMatch]

InitText ==
    /\ RecIdle /\ BackIdle /\ SetIdle /\ build \in Builds
    /\ pieces \in UNION {[1..n -> TextPieces] : n \in 1..MaxPieces}
    /\ options = [checkExistence |-> TRUE, forceAll |-> FALSE]
    /\ phase = "done" /\ searchPos = 1 /\ found = <<>> /\ probes = <<>>
    /\ config = FullConfig /\ avatars = <<>>
    /\ maxRetries \in {0, 1} /\ retryDelay = 1000 /\ script = <<>>
    /\ attempt = 0 /\ rpc = "off" /\ lastError = NoError /\ fails = <<>> /\ log = <<>>
    /\ mesText = MessageOf(pieces) /\ pending = <<>> /\ cur = <<>>
    /\ triggers = 0 /\ settled = <<>> /\ failed = {}

\* an automatic trigger: parseImageTags(message.mes, { checkExistence: true })
TextTrigger ==
    /\ rpc = "off" /\ pending = <<>> /\ triggers < MaxTriggers
    /\ \E outcome \in ProbeOutcomes :
         pending' = ScanText(mesText, outcome, options.checkExistence, options.forceAll)
    /\ triggers' = triggers + 1
    /\ UNCHANGED <<mesText, cur, settled, failed>>
    /\ UNCHANGED <<retryVars, scanVars, backVars, setVars, build, enabled, is_user, present, mes, rendered, dom,
                   processingMessages, run>>

\* processTag calls generateImageWithRetry for one of the tags
TextGenStart ==
    /\ rpc = "off" /\ pending # <<>>
    /\ \E k \in DOMAIN pending :
         /\ cur' = <<pending[k]>>
         /\ pending' = Without(pending, k)
    /\ rpc' = "idle" /\ attempt' = 0 /\ lastError' = NoError /\ fails' = <<>>
    /\ log' = <<>>
    /\ script' \in [1..(maxRetries + 1) -> TextAnswers]
    /\ \E a \in {<<>>, <<"char">>} : avatars' = a
    /\ UNCHANGED <<mesText, triggers, settled, failed>>
    /\ UNCHANGED <<config, maxRetries, retryDelay>>
    /\ UNCHANGED <<scanVars, backVars, setVars, build, enabled, is_user, present, mes, rendered, dom,
                   processingMessages, run>>

\* the rest of processTag after the call has settled: the image is saved
\* (build "part" takes a remote URL as it is) and message.mes is rewritten
TextSettle ==
    /\ rpc \in {"returned", "thrown"} /\ cur # <<>>
    /\ LET tag == cur[1]
           Ok(path) ==
               LET after == WriteSuccess(mesText, tag, path) IN
               /\ mesText' = after
               /\ settled' = <<Settlement(tag, TRUE, path, mesText, after)>>
               /\ failed' = failed \ {Key(tag)}
           Err(error, body) ==
               LET after == WriteError(mesText, tag, error, body) IN
               /\ mesText' = after
               /\ settled' = <<Settlement(tag, FALSE, ErrorMessage(error, body), mesText, after)>>
               /\ failed' = failed \cup {Key(tag)}
       IN IF rpc = "thrown"
          THEN \E body \in Bodies(lastError) : Err(lastError, body)
          ELSE \/ IF build = "part" THEN Ok(<<"http://cdn/fox.png">>)
                  ELSE Err([kind |-> "save", status |-> "-", has |-> {}], <<>>)
               \/ \E path \in SavedPaths : Ok(path)
               \/ Err([kind |-> "upload", status |-> "-", has |-> {}], <<>>)
    /\ rpc' = "off" /\ cur' = <<>>
    /\ UNCHANGED <<pending, triggers>>
    /\ UNCHANGED <<config, avatars, maxRetries, retryDelay, script, attempt, lastError,
                   fails, log>>
    /\ UNCHANGED <<scanVars, backVars, setVars, build, enabled, is_user, present, mes, rendered, dom,
                   processingMessages, run>>

NextText ==
    \/ TextTrigger \/ TextGenStart \/ TextSettle
    \/ RetryStart \/ AvatarSettle \/ AttemptSettle \/ SleepDone

SpecText == InitText /\ [][NextText]_vars

\* ------------------- generateImageOpenAI / generateImageGemini: one request
MaxImages == 2  \* objects in the data list of an OpenAI-style answer

VALID_ASPECT_RATIOS ==
    {"1:1", "2:3", "3:2", "3:4", "4:3", "4:5", "5:4", "9:16", "16:9", "21:9"}
VALID_IMAGE_SIZES == {"1K", "2K", "4K"}

\* variant: the first value that is set, not validated
ChosenUnchecked(option, setting, valid, default) ==
    IF option # "" THEN option ELSE IF setting # "" THEN setting ELSE default

\* `options.x || settings.x || default`, replaced when it is not valid by
\* settings.x if that is valid and by the default otherwise
Chosen(option, setting, valid, default) ==
    LET first == IF option # "" THEN option ELSE IF setting # "" THEN setting ELSE default
    IN IF first \in valid THEN first
       ELSE IF setting \in valid THEN setting ELSE default

\* generationConfig.imageConfig of the request
ImageConfig(opts, cfg) ==
    [aspectRatio |-> Chosen(opts.aspectRatio, cfg.aspectRatio,
                            VALID_ASPECT_RATIOS, "1:1"),
     imageSize |-> Chosen(opts.imageSize, cfg.imageSize, VALID_IMAGE_SIZES, "1K")]

\* result.data lists objects, of which the model keeps whether they have
\* b64_json and url; result.url
OpenAIResponses ==
    [data : UNION {[1..n -> [b64_json : BOOLEAN, url : BOOLEAN]] : n \in 0..MaxImages},
     url : BOOLEAN]

\* a part of candidates[0].content.parts: an image (inlineData or
\* inline_data), a text with the address of an image in it ("link"), or
\* another text
GeminiResponses ==
    {r \in [blockReason : {"", "SAFETY"}, candidates : {0, 1},
            finishReason : {"STOP", "SAFETY"}, parts : {<<>>, <<"text">>, <<"link">>, <<"inlineData">>,
                     <<"text", "inline_data">>}] :
        r.candidates = 0 => (r.parts = <<>> /\ r.finishReason = "STOP")}

\* what a call returns: the image (which object or part it was taken from
\* and in which form), or the error thrown (its text, and what it quotes)
Image(form, from) == [kind |-> "image", form |-> form, from |-> from, text |-> "", quotes |-> ""]
Thrown(text, quotes) == [kind |-> "error", form |-> "", from |-> 0, text |-> text, quotes |-> quotes]

\* generateImageOpenAI after `response.json()`; when the first object has
\* neither field the value returned is undefined
OpenAIResult(res) ==
    IF Len(res.data) = 0
    THEN IF res.url THEN Image("url", 0) ELSE Thrown("No image data in response", "")
    ELSE IF res.data[1].b64_json THEN Image("data", 1)
    ELSE IF res.data[1].url THEN Image("url", 1)
    ELSE Image("undefined", 1)

HasText(parts) == \E n \in DOMAIN parts : parts[n] \in {"text", "link"}
FirstText(parts) == Min({n \in DOMAIN parts : parts[n] \in {"text", "link"}})

\* generateImageGemini after `response.json()`.  The texts of the second
\* copy are Russian: "prompt blocked (Safety): <blockReason>", "empty
\* answer of the model", "generation refused (<finishReason>): <text>",
\* "the model answered with text and no image: <text>", "neither image nor
\* text in the answer".  downloaded: the image behind a link could be
\* fetched.
GeminiResult(b, res, downloaded) ==
    LET inline == {n \in DOMAIN res.parts : res.parts[n] \in {"inlineData", "inline_data"}} IN
    IF res.candidates = 0
    THEN IF b = "index" THEN Thrown("No candidates in response", "")
         ELSE IF res.blockReason # "" THEN Thrown("prompt blocked", "blockReason")
         ELSE Thrown("empty answer", "")
    ELSE IF inline # {} THEN Image("data", Min(inline))
    ELSE IF b = "index" THEN Thrown("No image found in Gemini response", "")
    ELSE IF HasText(res.parts)
    THEN IF res.parts[FirstText(res.parts)] = "link"
         THEN Image(IF downloaded THEN "data" ELSE "url", FirstText(res.parts))
         ELSE IF res.finishReason # "STOP" THEN Thrown("generation refused", "text")
         ELSE Thrown("text and no image", "text")
    ELSE Thrown("neither image nor text", "")

InitBackend ==
    /\ RecIdle /\ RetryIdle /\ ScanIdle /\ TextIdle /\ SetIdle
    /\ build \in Builds
    /\ api \in {"openai", "gemini"}
    \* "" stands for a value that is missing (undefined, null or '')
    /\ tagOptions \in [aspectRatio : {"", "1:1", "16:9", "21:9", "7:5"},
                        imageSize : {"", "1K", "4K", "8K"}]
    /\ configured \in [aspectRatio : {"", "1:1", "16:9", "21:9", "7:5"},
                        imageSize : {"", "1K", "4K", "8K"}]
    /\ api = "openai" => (tagOptions = [aspectRatio |-> "", imageSize |-> ""] /\ configured = tagOptions)
    /\ response \in IF api = "openai" THEN OpenAIResponses ELSE GeminiResponses
    /\ sent = <<>> /\ bpc = "start"
    /\ result = [kind |-> "none", form |-> "", from |-> 0, text |-> "", quotes |-> ""]

\* generateImageOpenAI up to its request
OpenAISend ==
    /\ bpc = "start" /\ api = "openai"
    /\ bpc' = "sent"
    /\ UNCHANGED <<api, tagOptions, configured, response, sent, result>>
    /\ UNCHANGED <<retryVars, scanVars, textVars, setVars, build, enabled, is_user, present, mes, rendered, dom,
                   processingMessages, run>>

\* the answer (status ok) of the OpenAI-style backend is read
OpenAIAnswer ==
    /\ bpc = "sent" /\ api = "openai"
    /\ result' = OpenAIResult(response)
    /\ bpc' = "done"
    /\ UNCHANGED <<api, tagOptions, configured, response, sent>>
    /\ UNCHANGED <<retryVars, scanVars, textVars, setVars, build, enabled, is_user, present, mes, rendered, dom,
                   processingMessages, run>>

\* generateImageGemini up to its request
GeminiSend ==
    /\ bpc = "start" /\ api = "gemini"
    /\ sent' = <<ImageConfig(tagOptions, configured)>>
    /\ bpc' = "sent"
    /\ UNCHANGED <<api, tagOptions, configured, response, result>>
    /\ UNCHANGED <<retryVars, scanVars, textVars, setVars, build, enabled, is_user, present, mes, rendered, dom,
                   processingMessages, run>>

\* the answer (status ok) of the Gemini-style backend is read
GeminiAnswer ==
    /\ bpc = "sent" /\ api = "gemini"
    /\ \E downloaded \in BOOLEAN : result' = GeminiResult(build, response, downloaded)
    /\ bpc' = "done"
    /\ UNCHANGED <<api, tagOptions, configured, response, sent>>
    /\ UNCHANGED <<retryVars, scanVars, textVars, setVars, build, enabled, is_user, present, mes, rendered, dom,
                   processingMessages, run>>

NextBackend == OpenAISend \/ OpenAIAnswer \/ GeminiSend \/ GeminiAnswer

SpecBackend == InitBackend /\ [][NextBackend]_vars

\* -------------- the settings panel and generateImageWithRetry: the route
\* Here a generation is followed through its requests only: which backend
\* each attempt goes to and which reference images it carries.  `settings`
\* is the one object that getSettings returns to the panel's handlers and
\* to a generation in progress.
MaxChanges == 2  \* events of the settings panel in one behaviour

\* a model name is a sequence of tokens: dall-e-3, Nano-Banana-pro,
\* GEMINI-2.5-flash-image
ModelNames == {<<"dall-e-3">>, <<"Nano-Banana", "-pro">>, <<"GEMINI", "-2.5-flash-image">>}

toLowerCase(s) ==
    [n \in DOMAIN s |-> CASE s[n] = "Nano-Banana" -> "nano-banana"
                          [] s[n] = "GEMINI" -> "gemini"
                          [] OTHER -> s[n]]

\* mid.includes('nano-banana'), in the second copy also mid.includes('gemini')
isGeminiModel(b, modelId) ==
    LET mid == toLowerCase(modelId) IN
    \E n \in DOMAIN mid :
        mid[n] \in (IF b = "index" THEN {"nano-banana"} ELSE {"nano-banana", "gemini"})

\* `settings.apiType === 'gemini' || isGeminiModel(settings.model)`
UsesGemini(b, s) == s.apiType = "gemini" \/ isGeminiModel(b, s.model)

\* the value of a number field, and parseInt of it (-1 stands for NaN)
FieldValues == {"", "0", "1", "2", "3", "4", "5"}
parseInt(v) ==
    CASE v = "0" -> 0 [] v = "1" -> 1 [] v = "2" -> 2 [] v = "3" -> 3
      [] v = "4" -> 4 [] v = "5" -> 5 [] OTHER -> -1

\* `parseInt(e.target.value) || 3`
MaxRetriesOf(v) == IF parseInt(v) \in {-1, 0} THEN 3 ELSE parseInt(v)

\* an avatar request ends with the image, with the body of an answer that
\* is not ok (the status is not tested), or with null (the request or the
\* conversion failed, or there is no avatar)
AvatarOutcomes == {"image", "errorPage", "null"}

\* `if (avatar) referenceImages.push(avatar)`
Pushed(refs, who, outcome) ==
    IF outcome = "null" THEN refs ELSE Append(refs, [who |-> who, content |-> outcome])

\* the request of an attempt: the backend, and the reference images in it
\* (Gemini: referenceImages.slice(0, 4) before the text part; OpenAI:
\* referenceImages[0] as body.image)
Request(b, s, refs) ==
    IF UsesGemini(b, s)
    THEN [route |-> "gemini", images |-> SubSeq(refs, 1, IF Len(refs) < 4 THEN Len(refs) ELSE 4)]
    ELSE [route |-> "openai", images |-> SubSeq(refs, 1, IF Len(refs) < 1 THEN Len(refs) ELSE 1)]

IdleGen == [pc |-> "idle", maxRetries |-> 0, attempt |-> 0, referenceImages |-> <<>>,
            fetches |-> <<>>, requests |-> <<>>]

InitSettings ==
    /\ RecIdle /\ RetryIdle /\ ScanIdle /\ TextIdle /\ BackIdle
    /\ build \in Builds
    /\ settings \in [apiType : {"openai", "gemini"}, model : ModelNames,
                     sendCharAvatar : BOOLEAN, sendUserAvatar : BOOLEAN,
                     maxRetries : {0}]
    /\ gen = IdleGen
    /\ ui = [changes |-> 0, entered |-> "none"]

\* the `change` handler of the backend selection
SetApiType(v) ==
    /\ ui.changes < MaxChanges
    /\ settings' = [settings EXCEPT !.apiType = v]
    /\ ui' = [ui EXCEPT !.changes = @ + 1]
    /\ UNCHANGED gen
    /\ UNCHANGED <<retryVars, scanVars, textVars, backVars, build, enabled, is_user, present, mes,
                   rendered, dom, processingMessages, run>>

\* the `input` handler of the model field
SetModel(m) ==
    /\ ui.changes < MaxChanges
    /\ settings' = [settings EXCEPT !.model = m,
                      !.apiType = IF isGeminiModel(build, m) THEN "gemini" ELSE @]
    /\ ui' = [ui EXCEPT !.changes = @ + 1]
    /\ UNCHANGED gen
    /\ UNCHANGED <<retryVars, scanVars, textVars, backVars, build, enabled, is_user, present, mes,
                   rendered, dom, processingMessages, run>>

\* the `input` handler of the max-retries field (the first copy has it)
SetMaxRetries(v) ==
    /\ ui.changes < MaxChanges /\ build = "index"
    /\ settings' = [settings EXCEPT !.maxRetries = MaxRetriesOf(v)]
    /\ ui' = [changes |-> ui.changes + 1, entered |-> v]
    /\ UNCHANGED gen
    /\ UNCHANGED <<retryVars, scanVars, textVars, backVars, build, enabled, is_user, present, mes,
                   rendered, dom, processingMessages, run>>

\* the first iteration of the loop, up to its request
FirstAttempt(g) ==
    [g EXCEPT !.pc = "call",
              !.requests = Append(@, Request(build, settings, g.referenceImages))]

\* after the character's avatar: the user's avatar, or the first attempt
AfterCharAvatar(g) ==
    IF settings.sendUserAvatar
    THEN [g EXCEPT !.pc = "userAvatar", !.fetches = Append(@, "user")]
    ELSE FirstAttempt(g)

\* generateImageWithRetry up to its first await
GenStart ==
    /\ gen.pc = "idle"
    /\ LET g == [IdleGen EXCEPT !.maxRetries = settings.maxRetries] IN
       gen' = IF ~UsesGemini(build, settings) THEN FirstAttempt(g)
              ELSE IF settings.sendCharAvatar
              THEN [g EXCEPT !.pc = "charAvatar", !.fetches = Append(@, "char")]
              ELSE AfterCharAvatar(g)
    /\ UNCHANGED <<settings, ui>>
    /\ UNCHANGED <<retryVars, scanVars, textVars, backVars, build, enabled, is_user, present, mes,
                   rendered, dom, processingMessages, run>>

\* getCharacterAvatarBase64 / getUserAvatarBase64 settles
AvatarDone ==
    /\ gen.pc \in {"charAvatar", "userAvatar"}
    /\ \E outcome \in AvatarOutcomes :
         LET who == IF gen.pc = "charAvatar" THEN "char" ELSE "user"
             g == [gen EXCEPT !.referenceImages = Pushed(@, who, outcome)]
         IN gen' = IF gen.pc = "charAvatar" THEN AfterCharAvatar(g) ELSE FirstAttempt(g)
    /\ UNCHANGED <<settings, ui>>
    /\ UNCHANGED <<retryVars, scanVars, textVars, backVars, build, enabled, is_user, present, mes,
                   rendered, dom, processingMessages, run>>

\* the request of an attempt settles: an image, an error that is retried
\* unless this was the last attempt, or an error that is not
RequestDone ==
    /\ gen.pc = "call"
    /\ \E answer \in {"image", "retryable", "fatal"} :
         gen' = [gen EXCEPT !.pc =
                    IF answer = "image" THEN "returned"
                    ELSE IF answer = "fatal" \/ gen.attempt = gen.maxRetries THEN "thrown"
                    ELSE "sleep"]
    /\ UNCHANGED <<settings, ui>>
    /\ UNCHANGED <<retryVars, scanVars, textVars, backVars, build, enabled, is_user, present, mes,
                   rendered, dom, processingMessages, run>>

\* the backoff timer fires: the next iteration up to its request
BackoffDone ==
    /\ gen.pc = "sleep"
    /\ gen' = [FirstAttempt(gen) EXCEPT !.attempt = @ + 1]
    /\ UNCHANGED <<settings, ui>>
    /\ UNCHANGED <<retryVars, scanVars, textVars, backVars, build, enabled, is_user, present, mes,
                   rendered, dom, processingMessages, run>>

NextSettings ==
    \/ \E v \in {"openai", "gemini"} : SetApiType(v)
    \/ \E m \in ModelNames : SetModel(m)
    \/ \E v \in FieldValues : SetMaxRetries(v)
    \/ GenStart
    \/ AvatarDone
    \/ RequestDone
    \/ BackoffDone

SpecSettings == InitSettings /\ [][NextSettings]_vars

\* ======================================================== properties, Spec
Auto(r) == run[r].kind = "auto" /\ run[r].pc # "idle"
Regen(r) == run[r].kind = "regen" /\ run[r].pc # "idle"
Quiescent == \A r \in Runs : run[r].pc = "idle" \/ Finished(r)
CalledTags(r) == {i \in DOMAIN run[r].tpc : Called(run[r].tpc[i])}
HasLoading(d) == \E j \in DOMAIN d : d[j].k = "loading"

\* C1: when an automatic trigger arrives while an earlier automatic trigger
\* for the same message is in flight (its scan included), the two never both
\* invoke the Orchestrator for the same tag of the message.
C1_SecondTriggerDropped ==
    \A r1, r2 \in Runs :
        (Auto(r1) /\ Auto(r2) /\ r1 \in run[r2].over)
        => ~ \E i \in CalledTags(r1), j \in CalledTags(r2) :
                 run[r1].tags[i].pos = run[r2].tags[j].pos

\* C2: once every handler has run to its end, no identifier is left in the
\* in-flight set: whatever was added has been removed.
C2_GateReleased == Quiescent => processingMessages = {}

\* C3: a forced regenerate started while an automatic run has tags in flight
\* and the identifier is in the in-flight set invokes no generation, leaves no element of its own in the rendered
\* view and does not remove the identifier from the set.
C3_RegenBlocked ==
    \A r \in Runs :
        (Regen(r) /\ run[r].gate)
        => /\ CalledTags(r) = {}
           /\ ~run[r].del
           /\ \A j \in DOMAIN dom : dom[j].run # r

\* C4: once all tags of all handlers have settled, the rendered message
\* contains no loading indicator.
C4_NoLoadingLeft == (Quiescent /\ rendered = "full") => ~HasLoading(dom)

\* C5: an automatic run that found at least one tag has, at its end, called
\* the chat save exactly once, and never while a tag of the run was in flight.
C5_SaveOncePerRun ==
    \A r \in Runs :
        (Auto(r) /\ run[r].pc \in {"done", "aborted"} /\ run[r].tags # <<>>)
        => run[r].saves = 1 /\ ~run[r].early

\* C6: the steps of an automatic run whose normal-mode scan returns no tag
\* (the trigger and the return of the scan) change neither the message text
\* nor the rendered view nor the in-flight set, and the run never saves.
C6_NoTagNoOp ==
    [][\A r \in Runs :
          (run'[r].kind = "auto" /\ run'[r] # run[r] /\ run'[r].tags = <<>>)
          => /\ mes' = mes /\ dom' = dom
             /\ processingMessages' = processingMessages
             /\ run'[r].saves = 0]_vars

\* C6 witness: two automatic runs have each scanned a text that holds a
\* resolved element and returned no tag
C6_Witness ==
    \E r1, r2 \in Runs :
        /\ r1 # r2
        /\ \A r \in {r1, r2} : Auto(r) /\ run[r].scanned /\ run[r].pc = "done"
                               /\ run[r].tags = <<>>
        /\ \E j \in DOMAIN mes : mes[j].fmt = "markup" /\ mes[j].st = "done"

\* C7: in an automatic run where one tag failed, every tag whose generation
\* and image save succeeded has its final image in the rendered view and its
\* success state in the message text.
RenderedOk(r, i) ==
    \E j \in DOMAIN dom : dom[j].k = "img" /\ dom[j].c = "iig-generated-image"
                          /\ dom[j].run = r /\ dom[j].idx = i
WrittenOk(r, i) ==
    \E j \in DOMAIN mes : mes[j].fmt = run[r].tags[i].fmt /\ mes[j].p = run[r].tags[i].p
                          /\ mes[j].st \in {"done", "url"}
C7_FailureIsolated ==
    \A r \in Runs :
        (Auto(r) /\ Finished(r) /\ rendered = "full")
        => \A i, k \in DOMAIN run[r].tpc :
              (run[r].tpc[i] = "ok" /\ run[r].tpc[k] = "err")
              => RenderedOk(r, i) /\ WrittenOk(r, i)

\* C19: a generation result that is a remote URL is never handed to the
\* save-image collaborator (it is used as the source directly).
C19_UrlUsedDirectly ==
    \A r \in Runs : \A i \in DOMAIN run[r].tpc : run[r].tpc[i] # "saveUrl"

\* =================================================== properties, SpecRetry
\* the classification of failures that the retry policy is specified over
TransientApi(e) == e.kind = "api" /\ e.status \in {"429", "502", "503", "504"}
Transient(e) == TransientApi(e) \/ e.kind = "network"

Backoffs == SelectSeq(log, LAMBDA x : x.e = "backoff")
Terminated == rpc \in {"returned", "thrown"}

\* C8: when the call returns after k attempts that failed with a transient
\* API error, k is at most maxRetries, the status callback has seen exactly k
\* backoff notifications, the i-th announcing retryDelay * 2^(i-1), and each
\* notification is the event right before the sleep of that length.
C8_BackoffSchedule ==
    (rpc = "returned" /\ \A n \in DOMAIN fails : TransientApi(fails[n]))
    => /\ Len(fails) <= maxRetries
       /\ Len(Backoffs) = Len(fails)
       /\ \A n \in DOMAIN Backoffs : Backoffs[n].v = retryDelay * Pow2(n - 1)
       /\ \A j \in DOMAIN log :
             log[j].e = "sleep" => j > 1 /\ log[j - 1] = Event("backoff", log[j].v)
       /\ Cardinality({j \in DOMAIN log : log[j].e = "sleep"}) = Len(fails)

\* C8 witness: 503, 503, success with maxRetries = 2 and a 1000 ms base
C8_Witness ==
    /\ rpc = "returned" /\ maxRetries = 2 /\ retryDelay = 1000
    /\ Len(fails) = 2 /\ \A n \in DOMAIN fails : fails[n].status = "503"
    /\ Backoffs = <<Event("backoff", 1000), Event("backoff", 2000)>>

\* C9: every failure that was followed by another attempt is an API error
\* with status 429, 502, 503 or 504, or a network or timeout error.
C9_OnlyTransientRetried ==
    \A n \in 1..Len(Backoffs) : Transient(fails[n])

\* C10: the call gives up on a transient failure only when maxRetries
\* retries have been made.
C10_TransientAlwaysRetried ==
    (rpc = "thrown" /\ Transient(lastError)) => attempt = maxRetries

\* the backend calls made so far
Calls == Cardinality({j \in DOMAIN log : log[j].e = "call"})

\* C11: the retry loop makes at most maxRetries + 1 backend calls and then
\* terminates, whatever the attempts answer; when it throws after an attempt,
\* the error thrown is the error of the last attempt made.
C11_BoundedAndLastError ==
    /\ [](/\ Calls <= maxRetries + 1
          /\ (rpc = "thrown" /\ fails # <<>>) => lastError = fails[Len(fails)])
    /\ <>Terminated

\* C11 witness: three attempts with maxRetries = 2, all failing with a
\* transient API error, the last one different from the first
C11_Witness ==
    /\ rpc = "thrown" /\ maxRetries = 2 /\ Calls = 3 /\ Len(fails) = 3
    /\ \A n \in DOMAIN fails : TransientApi(fails[n]) /\ isRetryable(fails[n])
    /\ fails[1] # fails[3] /\ lastError = fails[3]

\* C12: once a call has started with one of endpoint, apiKey, model not set,
\* it has thrown an error naming exactly the missing fields, and no avatar
\* request, backend request, status callback or retry has happened.
MissingFields == {f \in DOMAIN config : config[f] = ""}
C12_ConfigFailsFast ==
    (MissingFields # {} /\ rpc # "idle")
    => /\ rpc = "thrown" /\ lastError.kind = "config"
       /\ {lastError.names[n] : n \in DOMAIN lastError.names} = MissingFields
       /\ log = <<>> /\ attempt = 0 /\ fails = <<>>

\* C12 witness: apiKey and model missing, both avatars requested, retries allowed
C12_Witness ==
    /\ rpc = "thrown" /\ MissingFields = {"apiKey", "model"}
    /\ avatars = <<"char", "user">> /\ maxRetries = 2
    /\ lastError = ConfigError(<<"apiKey", "model">>)

\* ================================================ properties, SpecScan
\* the tag returned for piece n, if any
TagsOf(n) == {m \in DOMAIN found : found[m].index = StartOf(pieces, n)}
Returned(n) == TagsOf(n) # {}
Markers == {n \in DOMAIN pieces : pieces[n].fam # "plain"}
ProbeAnswers(n) == {probes[m][2] : m \in {k \in DOMAIN probes : probes[k][1] = StartOf(pieces, n)}}

\* C13: no tag is returned for an element whose existence probe threw: a
\* returned tag was either not probed or its probe answered not-found.
C13_ProbeErrorKeepsImage ==
    \A m \in DOMAIN found : found[m].probe \in {"none", "notfound"}

\* C15: once the markup loop is over, a markup element with a parseable
\* payload has been returned exactly when the decision table says so:
\* forceAll -> yes; error sentinel -> no; empty source or marker token ->
\* yes; resolved path with existence check -> iff the probe answered
\* not-found; resolved path without existence check -> no.
InTable(p) == p.fam = "markup" /\ p.body = <<"fox">> /\ p.src \notin {"url", "short"}
Table(n) ==
    IF options.forceAll THEN TRUE
    ELSE IF pieces[n].src = "error" THEN FALSE
    ELSE IF pieces[n].src \in {"quoted", "unquoted", "absent", "empty"} THEN TRUE
    ELSE IF options.checkExistence THEN ProbeAnswers(n) = {"notfound"}
    ELSE FALSE
C15_DecisionTable ==
    phase # "markup"
    => \A n \in DOMAIN pieces : InTable(pieces[n]) => (Returned(n) <=> Table(n))

\* C20: for a text made of plain runs and well-formed markers that all need
\* generation, the scan returns one tag per marker, and the tag of a marker
\* has exactly the marker's text as fullMatch.
NeedsIt(p) ==
    \/ p.fam = "legacy"
    \/ p.fam = "markup" /\ (options.forceAll
                             \/ p.src \in {"quoted", "unquoted", "absent", "empty"})
C20_EveryMarkerReturned ==
    (phase = "done" /\ \A n \in Markers : NeedsIt(pieces[n]))
    => /\ Len(found) = Cardinality(Markers)
       /\ \A n \in Markers :
             \E m \in TagsOf(n) : found[m].fullMatch = PieceTokens(pieces[n])

\* where the payload of marker n starts, and where its outermost object ends
JsonStartOf(n) == StartOf(pieces, n) + (IF pieces[n].fam = "markup" THEN 4 ELSE 1)
JsonEndOf(n) == JsonStartOf(n) + Len(Payload(pieces[n].q, pieces[n].body)) - 1
WellFormed(p) == p.fam \in {"markup", "legacy"}

\* C21: for every well-formed marker, whatever the quotes of its payload
\* and whatever braces its strings hold, the brace scan started at the
\* opening brace of the payload ends at the closing brace of the outermost
\* object.
C21_BraceScanEnd ==
    \A n \in DOMAIN pieces :
        (phase = "done" /\ WellFormed(pieces[n]))
        => BraceEnd(Flatten(pieces), JsonStartOf(n), 0, FALSE, FALSE) = JsonEndOf(n)

\* C22: the ranges [index, index + length(fullMatch)) of any two tags
\* returned by one scan are disjoint.
RangeOf(tag) == tag.index..(tag.index + Len(tag.fullMatch) - 1)
C22_DisjointRanges ==
    \A m1, m2 \in DOMAIN found :
        m1 # m2 => RangeOf(found[m1]) \cap RangeOf(found[m2]) = {}

\* the position of the marker of piece n, and the markup tags that hold it
MarkerPosOf(n) == StartOf(pieces, n) + (IF pieces[n].fam = "orphan" THEN 0 ELSE 2)
Covering(n) ==
    {m \in DOMAIN found : found[m].isNewFormat /\ MarkerPosOf(n) \in RangeOf(found[m])}
HasImg(p) == \E k \in DOMAIN PieceTokens(p) : PieceTokens(p)[k] = "<img"
\* the marker of piece n has its nearest `<img` more than 500 characters
\* before it, or none at all
OutOfReach(n) ==
    \/ pieces[n].fam = "far"
    \/ pieces[n].fam = "orphan" /\ \A j \in 1..(n - 1) : ~HasImg(pieces[j])
\* what the scan returns for the piece when it is the whole text
Alone(p) == ScanText(PieceTokens(p), "ok", options.checkExistence, options.forceAll)
ReturnedWhole(n) == \E m \in TagsOf(n) : found[m].fullMatch = PieceTokens(pieces[n])
\* every piece is plain text, a well-formed marker, or a marker of family F
MadeOf(F) == \A n \in DOMAIN pieces : pieces[n].fam \in {"plain", "markup", "legacy"} \cup F

\* C23: a marker whose nearest `<img` is out of reach is in no tag, and a
\* well-formed marker after it, which the scan returns when it stands
\* alone, is returned.
C23_LookbackBound ==
    (phase = "done" /\ MadeOf({"far", "near", "orphan"}))
    => \A n \in DOMAIN pieces :
          OutOfReach(n)
          => /\ Covering(n) = {}
             /\ \A j \in (n + 1)..Len(pieces) :
                   (WellFormed(pieces[j]) /\ Alone(pieces[j]) # <<>>) => ReturnedWhole(j)
C23_Witness ==
    /\ phase = "done" /\ Len(pieces) = 2
    /\ pieces[1].fam = "far" /\ pieces[2] = Piece("markup", "\"", <<"fox">>, "quoted")
    /\ ~options.forceAll
    /\ Len(found) = 1 /\ found[1].index = StartOf(pieces, 2)

\* the malformed candidates: unparsable JSON, unbalanced braces, a markup
\* element without `>`, a legacy payload without `]` or without an object
Malformed ==
    {"badJson", "unbalanced", "noClose",
     "legacyBadJson", "legacyUnbalanced", "legacyNoBracket", "legacyNoBrace"}
TagsFrom(n) == {m \in DOMAIN found : found[m].index = StartOf(pieces, n)}

\* C24: a malformed candidate gives no tag, and every well-formed marker
\* after it, which the scan returns when it stands alone, is returned.
C24_MalformedDropped ==
    (phase = "done" /\ MadeOf(Malformed))
    => \A n \in DOMAIN pieces :
          pieces[n].fam \in Malformed
          => /\ TagsFrom(n) = {}
             /\ \A j \in (n + 1)..Len(pieces) :
                   (WellFormed(pieces[j]) /\ Alone(pieces[j]) # <<>>) => ReturnedWhole(j)

\* C25: a scan makes no request, and what it returns is what any other
\* scan of the same text with the same options returns.
C25_ScanIsPure ==
    /\ probes = <<>>
    /\ phase = "done"
       => \A outcome \in ProbeOutcomes :
             found = ScanText(Flatten(pieces), outcome,
                              options.checkExistence, options.forceAll)

\* C37: parseImageTags returns on every text: an iteration that stays in its
\* loop resumes the search strictly after the position it started from and
\* never past the end of the text, so each loop makes at most as many
\* iterations as the text has positions.
C37_ScanTerminates ==
    LET text == Flatten(pieces)
        Advances(it) == it.done \/ (searchPos < it.next /\ it.next <= Len(text) + 1)
    IN /\ phase = "markup" =>
            \A outcome \in ProbeOutcomes :
                Advances(MarkupIter(text, searchPos, outcome,
                                    options.checkExistence, options.forceAll))
       /\ phase = "legacy" => Advances(LegacyIter(text, searchPos))

\* a scan has returned from a text with a malformed candidate and a candidate
\* it accepted, or one it skipped after probing the file
C37_Witness ==
    /\ phase = "done"
    /\ \E n \in DOMAIN pieces :
         pieces[n].fam \in {"badJson", "unbalanced", "noClose", "legacyBadJson",
                            "legacyUnbalanced", "legacyNoBracket", "legacyNoBrace"}
    /\ found # <<>> \/ probes # <<>>

\* ================================================ properties, SpecText
\* the message with piece n replaced by repl
Splice(ps, n, repl) ==
    <<"Hello", " ">> \o Flatten(SubSeq(ps, 1, n - 1)) \o repl
    \o Flatten(SubSeq(ps, n + 1, Len(ps))) \o <<" ", "world">>

\* the message holds one marker, and it is a legacy marker
OneLegacy == Cardinality(Markers) = 1 /\ \A n \in Markers : pieces[n].fam = "legacy"
TheMarker == CHOOSE n \in Markers : TRUE

\* the element that starts at position k
ElementAt(text, k) ==
    SubSeq(text, k, Min({n \in k..(Len(text) + 1) : n = Len(text) + 1 \/ text[n] = ">"}))

\* C14: in normal mode the scan returns no element whose source is the
\* error image, and no automatic trigger starts a generation for a tag
\* whose last generation failed.
C14_FailedNotRetried ==
    /\ \A m \in DOMAIN pending : ~hasErrorImage(pending[m].existingSrc)
    /\ cur # <<>> => Key(cur[1]) \notin failed

\* C16: when the only tag of a message is a legacy marker and its generation
\* succeeds, the text is the original one with the marker replaced by the
\* completion marker that holds the resolved path, and the tag carries the
\* prompt and the style of the payload.
C16_LegacySuccessText ==
    (OneLegacy /\ settled # <<>> /\ settled[1].ok)
        => /\ settled[1].after
                = Splice(pieces, TheMarker, <<"[IMG:DONE:">> \o settled[1].value \o <<"]">>)
           /\ settled[1].tag.fullMatch = PieceTokens(pieces[TheMarker])
           /\ settled[1].tag.prompt.v = pieces[TheMarker].body
           /\ settled[1].tag.style.v = <<"cat">>

\* C17: when the only tag of a message is a legacy marker, maxRetries is 0
\* and the backend answers HTTP 500, one backend call is made and the text
\* is the original one with the marker replaced by the error marker that
\* holds the first 50 characters of the message `API Error (500): ...`.
C17_LegacyErrorText ==
    (OneLegacy /\ maxRetries = 0 /\ settled # <<>> /\ rpc = "off"
       /\ lastError.kind = "api" /\ lastError.status = "500")
        => /\ Calls = 1
           /\ SubSeq(settled[1].value, 1, 3) = <<"API Error (", "500", "): ">>
           /\ settled[1].after
                = Splice(pieces, TheMarker,
                         <<"[IMG:ERROR:">> \o Substring(settled[1].value, 50) \o <<"]">>)

\* C18: once a markup tag has settled, the element in the text has the
\* resolved path as its source after a success and the error image after a
\* failure.
C18_MarkupSourceSettled ==
    (settled # <<>> /\ settled[1].tag.isNewFormat)
        => LET k == FindSub(settled[1].before, settled[1].tag.fullMatch) IN
           SrcValue(ElementAt(settled[1].after, k))
               = IF settled[1].ok THEN settled[1].value ELSE <<ErrorImagePath>>

\* two elements that differ at most in the value of a quoted source
SameButSrc(a, b) ==
    \/ a = b
    \/ \E j \in DOMAIN a :
         /\ a[j] = "src=" /\ QuotedSrcEnd(a, j) # 0
         /\ j <= Len(b) /\ QuotedSrcEnd(b, j) # 0
         /\ SubSeq(a, 1, SkipWs(a, j + 1)) = SubSeq(b, 1, SkipWs(b, j + 1))
         /\ SubSeq(a, QuotedSrcEnd(a, j), Len(a)) = SubSeq(b, QuotedSrcEnd(b, j), Len(b))

\* C26: the rewrite of a settled markup tag changes at most the value of the
\* source attribute of its element: the text before and after the element
\* and the rest of the element are the same, and a forced scan of the new
\* text returns a tag with the same prompt and style at the same place.
C26_OnlySourceChanges ==
    (settled # <<>> /\ settled[1].tag.isNewFormat)
    => LET tag == settled[1].tag
           before == settled[1].before
           after == settled[1].after
           k == FindSub(before, tag.fullMatch)
           el == ElementAt(after, k)
           rescan == ScanText(after, "ok", FALSE, TRUE)
       IN /\ SubSeq(after, 1, k - 1) = SubSeq(before, 1, k - 1)
          /\ SameButSrc(tag.fullMatch, el)
          /\ SubSeq(after, k + Len(el), Len(after))
               = SubSeq(before, k + Len(tag.fullMatch), Len(before))
          /\ \E m \in DOMAIN rescan :
                /\ rescan[m].index = k
                /\ rescan[m].prompt = tag.prompt /\ rescan[m].style = tag.style


\* the generation of a tag has returned or thrown
Completed(t) == t \in {"saveData", "saveUrl", "ok", "err"}

\* C30: in a forced regeneration a tag is started only when every tag before
\* it has settled (generation, retries and save included); in an automatic
\* run no tag is still to be started once the generation of one has
\* completed.
C30_SequentialAndConcurrent ==
    \A r \in Runs :
        /\ run[r].kind = "regen" =>
             \A i, k \in DOMAIN run[r].tpc :
                (i < k /\ run[r].tpc[k] # "wait") => Settled(run[r].tpc[i])
        /\ run[r].kind = "auto" =>
             ((\E i \in DOMAIN run[r].tpc : Completed(run[r].tpc[i]))
                => \A k \in DOMAIN run[r].tpc : run[r].tpc[k] # "wait")

C30_Witness ==
    \E r \in Runs :
        /\ run[r].kind = "regen" /\ Len(run[r].tpc) = 2
        /\ run[r].tpc[1] \in {"ok", "err"} /\ run[r].tpc[2] = "saveData"

\* run r is the only handler that has run, it has joined and all its tags
\* have settled
AloneAndSettled(r) ==
    /\ run[r].pc = "done" /\ AllSettled(r) /\ rendered = "full"
    /\ \A q \in Runs \ {r} : run[q].pc = "idle"

\* the slot of the text and the node of the view at the position of tag i
\* hold the outcome of tag i
LandsAtOwnPosition(r, i) ==
    LET pos == run[r].tags[i].pos
        good == run[r].tpc[i] = "ok"
    IN /\ mes[pos].st \in (IF good THEN {"done", "url"} ELSE {"error"})
       /\ pos \in DOMAIN dom /\ dom[pos].k = "img"
       /\ dom[pos].run = r /\ dom[pos].idx = i
       /\ dom[pos].c = IF good THEN "iig-generated-image" ELSE "iig-error-image"

\* C31: when an automatic run with two or more tags has settled, the outcome
\* of each tag is in the text and in the view at that tag's own position,
\* whatever the order in which the generations completed.
C31_OrderIndependent ==
    \A r \in Runs :
        (run[r].kind = "auto" /\ AloneAndSettled(r) /\ Len(run[r].tpc) >= 2)
        => \A i \in DOMAIN run[r].tpc :
              run[r].tpc[i] \in {"ok", "err"} => LandsAtOwnPosition(r, i)

\* C32: when a forced regeneration of a message of two or more markup tags
\* has settled, the image generated for tag i is the node at the position of
\* tag i and carries the instruction of tag i.
C32_RegenOwnElement ==
    \A r \in Runs :
        (run[r].kind = "regen" /\ AloneAndSettled(r) /\ Len(run[r].tpc) >= 2
           /\ \A i \in DOMAIN run[r].tags : run[r].tags[i].fmt = "markup")
        => \A i \in DOMAIN run[r].tpc :
              run[r].tpc[i] = "ok" =>
                 LET pos == run[r].tags[i].pos IN
                 /\ dom[pos].c = "iig-generated-image"
                 /\ dom[pos].run = r /\ dom[pos].idx = i
                 /\ dom[pos].p = run[r].tags[i].p

\* C35: when a forced regeneration has ended, a generation was started for
\* every tag of the forced scan, the outcome of each is in the text at the
\* position of the tag, and the chat was saved once.
C35_RegenEveryTag ==
    \A r \in Runs :
        (run[r].kind = "regen" /\ run[r].pc = "done" /\ run[r].tags # <<>>
           /\ rendered = "full" /\ \A q \in Runs \ {r} : run[q].pc = "idle")
        => /\ run[r].saves = 1
           /\ \A i \in DOMAIN run[r].tags :
                /\ i \in DOMAIN run[r].tpc /\ run[r].tpc[i] \in {"ok", "err"}
                /\ mes[run[r].tags[i].pos].st \in
                      (IF run[r].tpc[i] = "ok" THEN {"done", "url"} ELSE {"error"})

\* C38: a step of an automatic run on a message of the user, on a message
\* that is missing, or while the extension is disabled, is the return of the
\* handler: no scan, no tag, no generation, and the text, the view and the
\* in-flight set stay as they are.
C38_NothingForUserOrDisabled ==
    [][\A r \in Runs :
          (run'[r] # run[r] /\ run'[r].kind = "auto"
             /\ (is_user \/ ~present \/ ~enabled))
          => /\ run'[r].pc = "done" /\ ~run'[r].scanned
             /\ run'[r].tags = <<>> /\ run'[r].tpc = <<>>
             /\ mes' = mes /\ dom' = dom
             /\ processingMessages' = processingMessages]_vars

C38_Witness ==
    /\ is_user /\ enabled /\ rendered = "full" /\ processingMessages = {}
    /\ \E j \in DOMAIN mes : mes[j].st = "gen"
    /\ \A r \in Runs : run[r].kind = "auto" /\ run[r].pc = "done"

\* C36: when every tag of an automatic trigger has settled, a normal-mode
\* scan of the text of the message (the files it names being there) returns
\* no tag.
C36_NoTagAfterSettling ==
    (triggers >= 1 /\ settled # <<>> /\ pending = <<>> /\ cur = <<>>)
        => ScanText(mesText, "ok", TRUE, FALSE) = <<>>

\* ------------------------------------------------- properties, SpecBackend
\* the answer has neither an inline image nor a text with the address of one
NoUsableImage ==
    \/ response.candidates = 0
    \/ \A n \in DOMAIN response.parts : response.parts[n] = "text"

\* C27: a Gemini-style answer without usable image data makes the call throw
\* an error whose message quotes the block reason when the answer has one,
\* else an excerpt of the text when the answer has a text part, else neither.
C27_NoImageCases ==
    (bpc = "done" /\ api = "gemini" /\ NoUsableImage) =>
        /\ result.kind = "error"
        /\ result.quotes = IF response.blockReason # "" THEN "blockReason"
                           ELSE IF HasText(response.parts) THEN "text"
                           ELSE ""

HasEither(obj) == obj.b64_json \/ obj.url

\* C28: when some object of the data list of an OpenAI-style answer has
\* base64 data or a URL, the image returned is taken from the first such
\* object, its base64 data if it has them and its URL otherwise.
C28_FirstObjectWithImage ==
    (bpc = "done" /\ api = "openai"
       /\ \E n \in DOMAIN response.data : HasEither(response.data[n])) =>
        LET first == Min({n \in DOMAIN response.data : HasEither(response.data[n])})
        IN /\ result.kind = "image"
           /\ result.from = first
           /\ result.form = IF response.data[first].b64_json THEN "data" ELSE "url"

\* C29: a Gemini-style request is sent whatever the tag's and the configured
\* values are, the aspect ratio and image size in it are members of the
\* enumerations, and a tag's value that is not a member is replaced by the
\* configured one when that is a member.
C29_SentValuesValid ==
    (api = "gemini" /\ bpc \in {"sent", "done"}) =>
        /\ Len(sent) = 1
        /\ sent[1].aspectRatio \in VALID_ASPECT_RATIOS
        /\ sent[1].imageSize \in VALID_IMAGE_SIZES
        /\ (tagOptions.aspectRatio \notin VALID_ASPECT_RATIOS \cup {""}
              /\ configured.aspectRatio \in VALID_ASPECT_RATIOS)
               => sent[1].aspectRatio = configured.aspectRatio
        /\ (tagOptions.imageSize \notin VALID_IMAGE_SIZES \cup {""}
              /\ configured.imageSize \in VALID_IMAGE_SIZES)
               => sent[1].imageSize = configured.imageSize

C29_Witness ==
    /\ api = "gemini" /\ bpc = "sent"
    /\ tagOptions = [aspectRatio |-> "7:5", imageSize |-> "8K"]
    /\ configured = [aspectRatio |-> "16:9", imageSize |-> "4K"]
    /\ sent = <<[aspectRatio |-> "16:9", imageSize |-> "4K"]>>


\* ------------------------------------------------ properties, SpecSettings
\* the model name, in lower case, has a keyword of the copy's list
HasGeminiKeyword ==
    \E n \in DOMAIN settings.model :
        toLowerCase(settings.model)[n] \in
            (IF build = "index" THEN {"nano-banana"} ELSE {"nano-banana", "gemini"})

\* C33: the request of an attempt goes to the Gemini-style backend exactly
\* when the backend selected is gemini or the model name has a Gemini
\* keyword, whatever its case, and to the backend of the attempts before it.
C33_RouteOfAttempts ==
    [][Len(gen'.requests) > Len(gen.requests) =>
          LET q == gen'.requests[Len(gen'.requests)] IN
          /\ q.route = (IF settings'.apiType = "gemini" \/ HasGeminiKeyword'
                        THEN "gemini" ELSE "openai")
          /\ \A n \in DOMAIN gen.requests : gen.requests[n].route = q.route]_vars

\* C34: a generation whose avatar requests have settled goes on to its
\* request; an avatar is requested at most once in a generation; a request
\* has at most two reference images and none of a request that failed; a
\* Gemini-style request has every reference image collected.
C34_ReferencesNeverFatal ==
    /\ gen.pc = "thrown" => gen.requests # <<>>
    /\ \A m, n \in DOMAIN gen.fetches : m # n => gen.fetches[m] # gen.fetches[n]
    /\ \A n \in DOMAIN gen.requests :
          LET q == gen.requests[n] IN
          /\ Len(q.images) <= 2
          /\ \A k \in DOMAIN q.images : q.images[k].content = "image"
          /\ q.route = "gemini" => q.images = gen.referenceImages

\* C39: the max-retries setting is the number entered in the field, for
\* every number from 0 to 5.
C39_MaxRetriesStored ==
    ui.entered \in {"0", "1", "2", "3", "4", "5"} => settings.maxRetries = parseInt(ui.entered)

====
